---- MODULE Spec2Model ----
(***************************************************************************)
(* Server-side client lifecycle and packet protocol of                     *)
(* code/server/sv_client.c: the challenge table, SV_DirectConnect,         *)
(* SV_DropClient, the reliable command channel, the usercmd pipeline, the  *)
(* pure-content verifier and the gamestate emitter.                        *)
(*                                                                         *)
(* Every handler is a pure operator on the server aggregate                *)
(*     S = [time, clients, challenges, ev]                                 *)
(* (svs.time, svs.clients, svs.challenges and a record of what the handler *)
(* did: the hooks it called, the packets it sent, the client states it     *)
(* assigned).  An action applies one whole handler to the variables.       *)
(***************************************************************************)
EXTENDS Integers, Sequences, FiniteSets, TLC

VARIABLES
    cfg,         \* the cvars and build switches, fixed after start-up
    time,        \* svs.time, in milliseconds
    clients,     \* svs.clients[0 .. sv_maxclients-1]
    challenges,  \* svs.challenges[0 .. MAX_CHALLENGES-1]
    ev,          \* what the last handler did (observation only)
    hist         \* observation across handlers (issued nonces, think times)

vars == <<cfg, time, clients, challenges, ev, hist>>

(***************************************************************************)
(* Bounds of the model.                                                    *)
(***************************************************************************)
MaxClients == 2              \* value of sv_maxclients
MAX_CHALLENGES == 2          \* size of svs.challenges (scaled down)
MAX_CHALLENGES_MULTI == 1    \* per-address scan cut-off (scaled down)
MAX_RELIABLE_COMMANDS == 2   \* reliable window (scaled down)
MaxNonce == 1                \* nonces are drawn from 0 .. MaxNonce
MaxTicks == 1                \* svs.time advances MaxTicks times
MaxSeq == 3                  \* reliable sequence numbers stay within 0 .. MaxSeq
MaxOut == 3                  \* netchan.outgoingSequence stays within 1 .. MaxOut
MaxServerTime == 3           \* usercmd serverTime values are 0 .. MaxServerTime

MAX_INFO_STRING == 1024
MAX_PACKET_USERCMDS == 2     \* usercmds per move batch (scaled down)

(***************************************************************************)
(* clientState_t.  The code compares states with >= in places, so the      *)
(* order of the enumeration matters.                                       *)
(***************************************************************************)
CS_FREE == "CS_FREE"
CS_ZOMBIE == "CS_ZOMBIE"
CS_CONNECTED == "CS_CONNECTED"
CS_PRIMED == "CS_PRIMED"
CS_ACTIVE == "CS_ACTIVE"

ClientStates == {CS_FREE, CS_ZOMBIE, CS_CONNECTED, CS_PRIMED, CS_ACTIVE}

StateRank(s) ==
    CASE s = CS_FREE -> 0
      [] s = CS_ZOMBIE -> 1
      [] s = CS_CONNECTED -> 2
      [] s = CS_PRIMED -> 3
      [] s = CS_ACTIVE -> 4

StateGE(a, b) == StateRank(a) >= StateRank(b)

(***************************************************************************)
(* netadr_t.  A zeroed address has type NA_BAD and compares equal to no    *)
(* real address.                                                           *)
(***************************************************************************)
NA_BAD == "NA_BAD"
NA_BOT == "NA_BOT"
NA_LOOPBACK == "NA_LOOPBACK"
NA_IP == "NA_IP"

Adr(t, h, p) == [type |-> t, host |-> h, port |-> p]
NoAdr == Adr(NA_BAD, "", 0)
BotAdr == Adr(NA_BOT, "", 0)

\* Hosts on the server's subnet (RFC1918 in the code); the others are remote.
LanHosts == {"L"}

NET_IsLocalAddress(a) == a.type = NA_LOOPBACK

Sys_IsLANAddress(a) ==
    \/ a.type = NA_LOOPBACK
    \/ a.type = NA_IP /\ a.host \in LanHosts

NET_CompareBaseAdr(a, b) ==
    /\ a.type = b.type
    /\ \/ a.type = NA_LOOPBACK
       \/ a.type = NA_IP /\ a.host = b.host

NET_CompareAdr(a, b) ==
    /\ NET_CompareBaseAdr(a, b)
    /\ a.type = NA_IP => a.port = b.port

\* strlen of "localhost" or of NET_AdrToStringwPort(a)
IpStrLen(a) == IF NET_IsLocalAddress(a) THEN 9 ELSE 13

(***************************************************************************)
(* Small helpers.                                                          *)
(***************************************************************************)
NoTime == 0 - 1     \* "no usercmd thought yet" in the observation records

Slots == 0 .. (MaxClients - 1)
ChIdx == 0 .. (MAX_CHALLENGES - 1)

\* the element of a singleton.  Only({(e) : S \in {server}}) is e with S the
\* value of server, worked out once however often e names it
Only(X) == CHOOSE x \in X : TRUE

\* record r with the fields of u overwritten
Upd(r, u) == [k \in DOMAIN r |-> IF k \in DOMAIN u THEN u[k] ELSE r[k]]

\* The least element of a non-empty set of integers.
Least(X) == CHOOSE x \in X : \A y \in X : x <= y

(***************************************************************************)
(* Userinfo strings.  An info string is kept as the values the code reads  *)
(* from it, each with its text length (atoi of a missing or empty value is *)
(* 0), the length of the whole string, and the length of the value of its  *)
(* "ip" key (0: no such key).                                              *)
(***************************************************************************)
Val(n, l) == [n |-> n, len |-> l]
NoVal == Val(0, 0)

EmptyInfo ==
    [len |-> 0, iplen |-> 0, protocol |-> 0, challenge |-> 0, qport |-> 0,
     password |-> "", rate |-> NoVal, snaps |-> NoVal, handicap |-> NoVal]

\* Info_SetValueForKey(userinfo, "ip", ip): the old key is removed, the new
\* one is added unless the string would reach MAX_INFO_STRING.
Info_SetIp(ui, l) ==
    LET removed == IF ui.iplen > 0 THEN ui.len - (ui.iplen + 4) ELSE ui.len
    IN  IF (l + 4) + removed >= MAX_INFO_STRING
        THEN Upd(ui, [len |-> removed, iplen |-> 0])
        ELSE Upd(ui, [len |-> removed + l + 4, iplen |-> l])

\* Info_SetValueForKey(userinfo, "handicap", "100")
Info_SetHandicap100(ui) ==
    LET removed == ui.len - (ui.handicap.len + 10)
    IN  IF 13 + removed >= MAX_INFO_STRING
        THEN Upd(ui, [len |-> removed, handicap |-> NoVal])
        ELSE Upd(ui, [len |-> removed + 13, handicap |-> Val(100, 3)])

(***************************************************************************)
(* client_t and challenge_t, zeroed.                                       *)
(***************************************************************************)
ZeroClient ==
    [state |-> CS_FREE,
     adr |-> NoAdr,                 \* netchan.remoteAddress
     qport |-> 0,                   \* netchan.qport
     outgoingSequence |-> 0,        \* netchan.outgoingSequence
     challenge |-> 0,
     compat |-> FALSE,
     userinfo |-> EmptyInfo,
     userinfobuffer |-> FALSE,      \* a delayed userinfo is staged
     lastClientCommand |-> 0,
     reliableSequence |-> 0,
     reliableAcknowledge |-> 0,
     messageAcknowledge |-> 0,
     gamestateMessageNum |-> 0,
     deltaMessage |-> 0,
     pureAuthentic |-> 0,
     gotCP |-> FALSE,
     lastUsercmd |-> 0,             \* lastUsercmd.serverTime
     nextReliableTime |-> 0,
     nextReliableUserTime |-> 0,
     numcmds |-> 0,
     lastConnectTime |-> 0,
     lastPacketTime |-> 0,
     lastSnapshotTime |-> 0,
     snapshotMsec |-> 0,
     rate |-> 0]

\* SV_BotAllocateClient: a bot is put into a free slot, in the world at once
BotClient ==
    Upd(ZeroClient, [state |-> CS_ACTIVE, adr |-> BotAdr, rate |-> 16384])

ZeroChallenge ==
    [adr |-> NoAdr, challenge |-> 0, clientChallenge |-> 0, time |-> 0,
     pingTime |-> 0, connected |-> FALSE, wasrefused |-> FALSE]

(***************************************************************************)
(* What a handler did.  op and slot name the handler and the client it ran *)
(* for; the sequences list, in order, the client states it assigned, the   *)
(* game-module hooks it called, the out-of-band packets and the reliable   *)
(* server commands it sent, the clients it dropped, the reliable client    *)
(* commands it read (sent: how many the message held) and those it         *)
(* executed, the usercmds it passed to client_think, the cp commands       *)
(* SV_VerifyPaks_f looked at with the way each left the function, and the  *)
(* client_t before and after each SV_SendClientGameState (emits).          *)
(***************************************************************************)
NoSlot == 0 - 1

EmptyEv(op, slot) ==
    [op |-> op, slot |-> slot, result |-> "", reuse |-> FALSE,
     from |-> NoAdr, nonce |-> 0,
     peer |-> [adr |-> NoAdr, qport |-> 0, challenge |-> 0, protocol |-> 0,
               password |-> ""],
     ask |-> [limited |-> FALSE, gameOK |-> FALSE], infos |-> <<>>,
     hdr |-> [serverId |-> 0, messageAcknowledge |-> 0,
              reliableAcknowledge |-> 0, cmds |-> 0, moves |-> 0,
              tail |-> ""],
     trans |-> <<>>, hooks |-> <<>>, oob |-> <<>>, cmds |-> <<>>,
     drops |-> <<>>, sent |-> 0, read |-> <<>>, exec |-> <<>>, thinks |-> <<>>,
     cps |-> <<>>, gamestates |-> 0, emits |-> <<>>, snapshots |-> 0,
     heartbeats |-> 0]

EmptyHist ==
    [issued |-> {},
     thinkEver |-> [i \in Slots |-> NoTime],
     thinkWorld |-> [i \in Slots |-> NoTime],
     connectAt |-> [i \in Slots |-> NoTime],
     dropAt |-> [i \in Slots |-> NoTime],
     told |-> [i \in Slots |-> ""],
     cmdAt |-> [i \in Slots |-> <<>>]]

\* The server aggregate the handlers work on.
Server == [cfg |-> cfg, time |-> time, clients |-> clients,
           challenges |-> challenges, ev |-> ev, hist |-> hist]

Begin(op, slot) == [Server EXCEPT !.ev = EmptyEv(op, slot)]

SetClient(S, i, u) == [S EXCEPT !.clients[i] = Upd(@, u)]
SetEv(S, u) == [S EXCEPT !.ev = Upd(@, u)]

\* cl->state = st
SetState(server, i, st) ==
    Only({(
    [S EXCEPT !.clients[i].state = st,
              !.ev.trans = Append(@, <<i, S.clients[i].state, st>>)]
    ) : S \in {server}})

\* VM_Call(gvm, GAME_CLIENT_..., i)
\* a server that never calls GAME_CLIENT_DISCONNECT
Hook_NoDisconnect(server, name, i) ==
    Only({(
    IF name = "client_disconnect" THEN S
    ELSE [S EXCEPT !.ev.hooks = Append(@, [name |-> name, slot |-> i,
                                           state |-> S.clients[i].state]),
                   !.hist.told[i] = IF name = "client_connect" THEN "connect" ELSE @]
    ) : S \in {server}})

\* hist.told[i]: "connect" when the last of client_connect and
\* client_disconnect called for slot i is a client_connect, "rejected" when
\* the game module rejected it, "" otherwise
Hook(server, name, i) ==
    Only({(
    [S EXCEPT !.ev.hooks = Append(@, [name |-> name, slot |-> i,
                                      state |-> S.clients[i].state]),
              !.hist.told[i] = IF name = "client_connect" THEN "connect"
                               ELSE IF name = "client_disconnect" THEN ""
                               ELSE @]
    ) : S \in {server}})

\* NET_OutOfBandPrint(NS_SERVER, to, text)
NET_OutOfBandPrint(S, to, text) ==
    [S EXCEPT !.ev.oob = Append(@, [to |-> to, text |-> text])]

\* SV_Heartbeat_f()
SV_Heartbeat_f(S) == [S EXCEPT !.ev.heartbeats = @ + 1]

(***************************************************************************)
(* SV_SendServerCommand(cl, text), cl = NoSlot for a broadcast: one more   *)
(* reliable command for every addressed client that has been sent a        *)
(* gamestate.                                                              *)
(***************************************************************************)
SV_SendServerCommand(server, to, text) ==
    Only({(
    [S EXCEPT
       !.clients = [i \in Slots |->
           IF (to = NoSlot \/ to = i) /\ StateGE(S.clients[i].state, CS_PRIMED)
           THEN [S.clients[i] EXCEPT !.reliableSequence = @ + 1]
           ELSE S.clients[i]],
       !.ev.cmds = Append(@, [to |-> to, text |-> text])]
    ) : S \in {server}})

\* SV_SendMessageToClient / SV_SendClientSnapshot: one more datagram out.
SV_SendMessageToClient(S, i) ==
    [S EXCEPT !.clients[i].outgoingSequence = @ + 1]

(***************************************************************************)
(* SV_DropClient                                                           *)
(***************************************************************************)
\* the first challenge record of the dropped client's address, if any
DropChallengeIdx(server, i) ==
    Only({(
    {k \in ChIdx : NET_CompareAdr(S.clients[i].adr, S.challenges[k].adr)}
    ) : S \in {server}})

NobodyConnected(server) ==
    \E S \in {server} :
        \A j \in Slots : ~StateGE(S.clients[j].state, CS_CONNECTED)

\* a drop that restarts the reconnect cooldown of the slot
SV_DropClient_RestartsCooldown(server, i, reason) ==
    Only({(
    LET isBot == S.clients[i].adr.type = NA_BOT
        found == DropChallengeIdx(S, i)
        S1 == IF ~isBot /\ found # {}
              THEN [S EXCEPT !.challenges[Least(found)] = ZeroChallenge]
              ELSE S
        S2 == SV_SendServerCommand(S1, NoSlot, "print")
        S3 == Hook(S2, "client_disconnect", i)
        S4 == SV_SendServerCommand(S3, i, "disconnect")
        S5 == SetState(S4, i, IF isBot THEN CS_FREE ELSE CS_ZOMBIE)
        S6 == SetClient(S5, i, [userinfo |-> EmptyInfo,
                                 lastConnectTime |-> S.time])
        S7 == [S6 EXCEPT !.ev.drops = Append(@, [slot |-> i, reason |-> reason]),
                         !.hist.dropAt[i] = S.time]
    IN  IF S.clients[i].state = CS_ZOMBIE
        THEN S
        ELSE Only({(
                 IF NobodyConnected(dropped) THEN SV_Heartbeat_f(dropped)
                 ELSE dropped
             ) : dropped \in {S7}})
    ) : S \in {server}})

SV_DropClient(server, i, reason) ==
    Only({(
    LET isBot == S.clients[i].adr.type = NA_BOT
        found == DropChallengeIdx(S, i)
        S1 == IF ~isBot /\ found # {}
              THEN [S EXCEPT !.challenges[Least(found)] = ZeroChallenge]
              ELSE S
        S2 == SV_SendServerCommand(S1, NoSlot, "print")
        S3 == Hook(S2, "client_disconnect", i)
        S4 == SV_SendServerCommand(S3, i, "disconnect")
        S5 == SetState(S4, i, IF isBot THEN CS_FREE ELSE CS_ZOMBIE)
        S6 == SetClient(S5, i, [userinfo |-> EmptyInfo])
        S7 == [S6 EXCEPT !.ev.drops = Append(@, [slot |-> i, reason |-> reason]),
                         !.hist.dropAt[i] = S.time]
    IN  IF S.clients[i].state = CS_ZOMBIE
        THEN S
        ELSE Only({(
                 IF NobodyConnected(dropped) THEN SV_Heartbeat_f(dropped)
                 ELSE dropped
             ) : dropped \in {S7}})
    ) : S \in {server}})

(***************************************************************************)
(* SV_SendClientGameState                                                  *)
(***************************************************************************)
\* a gamestate that leaves the pure flags of the client as they are
SV_SendClientGameState_KeepPure(server, i) ==
    Only({(
    LET S1 == SetState(S, i, CS_PRIMED)
        S2 == SetClient(S1, i,
                 [gamestateMessageNum |-> S1.clients[i].outgoingSequence])
        S3 == SV_SendMessageToClient(S2, i)
    IN  [S3 EXCEPT !.ev.gamestates = @ + 1,
                   !.ev.emits = Append(@, [slot |-> i, before |-> S.clients[i],
                                           after |-> S3.clients[i]])]
    ) : S \in {server}})

SV_SendClientGameState(server, i) ==
    Only({(
    LET S1 == SetState(S, i, CS_PRIMED)
        S2 == SetClient(S1, i,
                 [pureAuthentic |-> 0, gotCP |-> FALSE,
                  gamestateMessageNum |-> S1.clients[i].outgoingSequence])
        S3 == SV_SendMessageToClient(S2, i)
    IN  [S3 EXCEPT !.ev.gamestates = @ + 1,
                   !.ev.emits = Append(@, [slot |-> i, before |-> S.clients[i],
                                           after |-> S3.clients[i]])]
    ) : S \in {server}})

(***************************************************************************)
(* SV_ClientEnterWorld                                                     *)
(***************************************************************************)
SV_ClientEnterWorld(server, i, cmd) ==
    Only({(
    LET S1 == SetState(S, i, CS_ACTIVE)
        S2 == SetClient(S1, i, [deltaMessage |-> 0 - 1, lastSnapshotTime |-> 0,
                                lastUsercmd |-> cmd])
        S3 == [S2 EXCEPT !.hist.thinkWorld[i] = NoTime]
    IN  Hook(S3, "client_begin", i)
    ) : S \in {server}})

(***************************************************************************)
(* SV_UserinfoChanged                                                      *)
(***************************************************************************)
ClampRate(ui, lanForced) ==
    IF lanForced THEN 100000
    ELSE IF ui.rate.len > 0
         THEN (IF ui.rate.n < 1000 THEN 1000
               ELSE IF ui.rate.n > 100000 THEN 100000 ELSE ui.rate.n)
         ELSE 5000

\* a range check of snaps without its upper end
ClampSnaps_NoCeiling(ui, fps) ==
    LET i == IF ui.snaps.len > 0 THEN ui.snaps.n ELSE fps
    IN  IF i < 1 THEN 1 ELSE i

ClampSnaps(ui, fps) ==
    LET i == IF ui.snaps.len > 0 THEN ui.snaps.n ELSE fps
    IN  IF i < 1 THEN 1 ELSE IF i > fps THEN fps ELSE i

SV_UserinfoChanged(server, i) ==
    Only({(
    LET cl == S.clients[i]
        lanForced == /\ Sys_IsLANAddress(cl.adr)
                     /\ S.cfg.com_dedicated # 2
                     /\ S.cfg.sv_lanForceRate = 1
        rate == ClampRate(cl.userinfo, lanForced)
        h == cl.userinfo.handicap
        ui1 == IF h.len > 0 /\ (h.n <= 0 \/ h.n > 100 \/ h.len > 4)
               THEN Info_SetHandicap100(cl.userinfo)
               ELSE cl.userinfo
        msec == 1000 \div ClampSnaps(ui1, S.cfg.sv_fps)
        S1 == SetClient([S EXCEPT !.ev.infos = Append(@, cl.userinfo)], i,
                 [rate |-> rate, userinfo |-> ui1, snapshotMsec |-> msec,
                  lastSnapshotTime |->
                      IF msec # cl.snapshotMsec THEN 0 ELSE cl.lastSnapshotTime])
        ip == IpStrLen(cl.adr)
        len == IF ui1.iplen > 0 THEN (ip - ui1.iplen) + ui1.len
               ELSE ip + 4 + ui1.len
    IN  IF len >= MAX_INFO_STRING
        THEN SV_DropClient(S1, i, "userinfo string length exceeded")
        ELSE SetClient(S1, i, [userinfo |-> Info_SetIp(ui1, ip)])
    ) : S \in {server}})

(***************************************************************************)
(* SV_GetChallenge.  limited: the answer of the two leaky buckets          *)
(* (SVC_RateLimitAddress, SVC_RateLimit); gameOK: the gamename argument    *)
(* matches com_gamename; nonce: the value of                               *)
(* ((rand() << 16) ^ rand()) ^ svs.time.                                   *)
(***************************************************************************)
RECURSIVE ChScan(_, _, _, _, _, _)
\* The scan of lines 107-128: the index of the record to overwrite.
ChScan(chs, from, i, wasfound, oldest, oldestTime) ==
    IF i >= MAX_CHALLENGES THEN oldest
    ELSE LET c == chs[i]
             wf == wasfound \/ (~c.connected /\ NET_CompareAdr(from, c.adr))
         IN  IF wf /\ i >= MAX_CHALLENGES_MULTI THEN oldest
             ELSE IF c.time < oldestTime
                  THEN ChScan(chs, from, i + 1, wf, i, c.time)
                  ELSE ChScan(chs, from, i + 1, wf, oldest, oldestTime)

\* a getchallenge that checks the game name before the rate limiters
SV_GetChallenge_MismatchFirst(server, from, clientChallenge, gameOK, limited, nonce) ==
    Only({(
    LET oldest == ChScan(S.challenges, from, 0, FALSE, 0, 2147483647)
        rec == [adr |-> from, challenge |-> nonce,
                clientChallenge |-> clientChallenge, time |-> S.time,
                pingTime |-> S.time, connected |-> FALSE, wasrefused |-> FALSE]
        S1 == [S EXCEPT !.challenges[oldest] = rec,
                        !.hist.issued = @ \cup {<<from, nonce>>}]
    IN  IF S.cfg.singlePlayer THEN SetEv(S, [result |-> "singleplayer"])
        ELSE IF ~gameOK
             THEN SetEv(NET_OutOfBandPrint(S, from, "print Game mismatch"),
                        [result |-> "mismatch"])
        ELSE IF limited THEN SetEv(S, [result |-> "ratelimited"])
        ELSE SetEv(NET_OutOfBandPrint(S1, from, "challengeResponse"),
                   [result |-> "challenge"])
    ) : S \in {SetEv(server, [ask |-> [limited |-> limited,
                                       gameOK |-> gameOK]])}})

SV_GetChallenge(server, from, clientChallenge, gameOK, limited, nonce) ==
    Only({(
    LET oldest == ChScan(S.challenges, from, 0, FALSE, 0, 2147483647)
        rec == [adr |-> from, challenge |-> nonce,
                clientChallenge |-> clientChallenge, time |-> S.time,
                pingTime |-> S.time, connected |-> FALSE, wasrefused |-> FALSE]
        S1 == [S EXCEPT !.challenges[oldest] = rec,
                        !.hist.issued = @ \cup {<<from, nonce>>}]
    IN  IF S.cfg.singlePlayer THEN SetEv(S, [result |-> "singleplayer"])
        ELSE IF limited THEN SetEv(S, [result |-> "ratelimited"])
        ELSE IF ~gameOK
             THEN SetEv(NET_OutOfBandPrint(S, from, "print Game mismatch"),
                        [result |-> "mismatch"])
        ELSE SetEv(NET_OutOfBandPrint(S1, from, "challengeResponse"),
                   [result |-> "challenge"])
    ) : S \in {SetEv(server, [ask |-> [limited |-> limited,
                                       gameOK |-> gameOK]])}})

(***************************************************************************)
(* SV_IsBanned: serverBans is a sequence of [host, isexception].           *)
(***************************************************************************)
BanMatch(server, from, isexception) ==
    Only({(
    \E k \in 1 .. Len(S.cfg.serverBans) :
        /\ S.cfg.serverBans[k].isexception = isexception
        /\ from.type = NA_IP
        /\ S.cfg.serverBans[k].host = from.host
    ) : S \in {server}})

SV_IsBanned(server, from) ==
    Only({(
    IF BanMatch(S, from, TRUE) THEN FALSE ELSE BanMatch(S, from, FALSE)
    ) : S \in {server}})

(***************************************************************************)
(* SV_DirectConnect                                                        *)
(***************************************************************************)
\* a reconnect scan that does not skip FREE slots
PeerSlots_AnyState(server, from, qport) ==
    Only({(
    {i \in Slots :
        /\ NET_CompareBaseAdr(from, S.clients[i].adr)
        /\ (S.clients[i].qport = qport \/ from.port = S.clients[i].adr.port)}
    ) : S \in {server}})

\* the slots a connect from (from, qport) is taken to be a reconnect of
PeerSlots(server, from, qport) ==
    Only({(
    {i \in Slots :
        /\ S.clients[i].state # CS_FREE
        /\ NET_CompareBaseAdr(from, S.clients[i].adr)
        /\ (S.clients[i].qport = qport \/ from.port = S.clients[i].adr.port)}
    ) : S \in {server}})

\* a quick reject that looks at every matching slot, not at the first
ReconnectTooSoon_AnyMatch(server, from, qport) ==
    Only({(
    \E i \in PeerSlots(S, from, qport) :
        S.time - S.clients[i].lastConnectTime < S.cfg.sv_reconnectlimit * 1000
    ) : S \in {server}})

\* lines 241-256: a matching slot was (re)connected too recently
ReconnectTooSoon(server, from, qport) ==
    Only({(
    LET m == PeerSlots(S, from, qport)
    IN  /\ m # {}
        /\ S.time - S.clients[Least(m)].lastConnectTime
              < S.cfg.sv_reconnectlimit * 1000
    ) : S \in {server}})

\* a challenge check that compares the address only
ChallengeMatches_AnyNonce(server, from, challenge) ==
    Only({(
    {k \in ChIdx : NET_CompareAdr(from, S.challenges[k].adr)}
    ) : S \in {server}})

\* lines 277-284: the challenge records of this address with this nonce
ChallengeMatches(server, from, challenge) ==
    Only({(
    {k \in ChIdx : /\ NET_CompareAdr(from, S.challenges[k].adr)
                   /\ challenge = S.challenges[k].challenge}
    ) : S \in {server}})

NumIpClients(server, from) ==
    Only({(
    Cardinality({i \in Slots : /\ S.clients[i].state # CS_FREE
                               /\ NET_CompareBaseAdr(from, S.clients[i].adr)})
    ) : S \in {server}})

\* a challenge check that marks the record connected before the ping policy
DC_Challenge_MarkFirst(server, from, challenge) ==
    Only({(
    LET m == ChallengeMatches(S, from, challenge)
        k == Least(m)
        ping == S.time - S.challenges[k].pingTime
        refuse(T, text) ==
            SetEv(NET_OutOfBandPrint(
                      [T EXCEPT !.challenges[k].wasrefused = TRUE,
                                !.challenges[k].connected = TRUE], from, text),
                  [result |-> "ping"])
    IN  IF NET_IsLocalAddress(from) THEN S
        ELSE IF m = {}
             THEN SetEv(NET_OutOfBandPrint(S, from, "print No or bad challenge"),
                        [result |-> "badchallenge"])
        ELSE IF S.challenges[k].wasrefused
             THEN SetEv(S, [result |-> "refused"])
        ELSE IF /\ ~Sys_IsLANAddress(from)
                /\ S.cfg.sv_clientsPerIp # 0
                /\ NumIpClients(S, from) >= S.cfg.sv_clientsPerIp
             THEN SetEv(NET_OutOfBandPrint(S, from, "print Too many connections"),
                        [result |-> "perip"])
        ELSE IF /\ ~Sys_IsLANAddress(from)
                /\ S.cfg.sv_minPing # 0 /\ ping < S.cfg.sv_minPing
             THEN refuse(S, "print Server is for high pings only")
        ELSE IF /\ ~Sys_IsLANAddress(from)
                /\ S.cfg.sv_maxPing # 0 /\ ping > S.cfg.sv_maxPing
             THEN refuse(S, "print Server is for low pings only")
        ELSE [S EXCEPT !.challenges[k].connected = TRUE]
    ) : S \in {server}})

\* a challenge check that forgets it refused the record before
DC_Challenge_NoSticky(server, from, challenge) ==
    Only({(
    LET m == ChallengeMatches(S, from, challenge)
        k == Least(m)
        ping == S.time - S.challenges[k].pingTime
        refuse(T, text) ==
            SetEv(NET_OutOfBandPrint(
                      [T EXCEPT !.challenges[k].wasrefused = TRUE], from, text),
                  [result |-> "ping"])
    IN  IF NET_IsLocalAddress(from) THEN S
        ELSE IF m = {}
             THEN SetEv(NET_OutOfBandPrint(S, from, "print No or bad challenge"),
                        [result |-> "badchallenge"])
        ELSE IF /\ ~Sys_IsLANAddress(from)
                /\ S.cfg.sv_clientsPerIp # 0
                /\ NumIpClients(S, from) >= S.cfg.sv_clientsPerIp
             THEN SetEv(NET_OutOfBandPrint(S, from, "print Too many connections"),
                        [result |-> "perip"])
        ELSE IF /\ ~Sys_IsLANAddress(from)
                /\ S.cfg.sv_minPing # 0 /\ ping < S.cfg.sv_minPing
             THEN refuse(S, "print Server is for high pings only")
        ELSE IF /\ ~Sys_IsLANAddress(from)
                /\ S.cfg.sv_maxPing # 0 /\ ping > S.cfg.sv_maxPing
             THEN refuse(S, "print Server is for low pings only")
        ELSE [S EXCEPT !.challenges[k].connected = TRUE]
    ) : S \in {server}})

\* lines 271-337.  The result "" lets the connect go on.
DC_Challenge(server, from, challenge) ==
    Only({(
    LET m == ChallengeMatches(S, from, challenge)
        k == Least(m)
        ping == S.time - S.challenges[k].pingTime
        refuse(T, text) ==
            SetEv(NET_OutOfBandPrint(
                      [T EXCEPT !.challenges[k].wasrefused = TRUE], from, text),
                  [result |-> "ping"])
    IN  IF NET_IsLocalAddress(from) THEN S
        ELSE IF m = {}
             THEN SetEv(NET_OutOfBandPrint(S, from, "print No or bad challenge"),
                        [result |-> "badchallenge"])
        ELSE IF S.challenges[k].wasrefused
             THEN SetEv(S, [result |-> "refused"])
        ELSE IF /\ ~Sys_IsLANAddress(from)
                /\ S.cfg.sv_clientsPerIp # 0
                /\ NumIpClients(S, from) >= S.cfg.sv_clientsPerIp
             THEN SetEv(NET_OutOfBandPrint(S, from, "print Too many connections"),
                        [result |-> "perip"])
        ELSE IF /\ ~Sys_IsLANAddress(from)
                /\ S.cfg.sv_minPing # 0 /\ ping < S.cfg.sv_minPing
             THEN refuse(S, "print Server is for high pings only")
        ELSE IF /\ ~Sys_IsLANAddress(from)
                /\ S.cfg.sv_maxPing # 0 /\ ping > S.cfg.sv_maxPing
             THEN refuse(S, "print Server is for low pings only")
        ELSE [S EXCEPT !.challenges[k].connected = TRUE]
    ) : S \in {server}})

\* lines 373-415: the slot for a new client; NoSlot with a result otherwise
FreeSlots(server, startIndex) ==
    Only({(
    {i \in Slots : i >= startIndex /\ S.clients[i].state = CS_FREE}
    ) : S \in {server}})

\* a server that keeps no slot for those with the password
StartIndex_NoPrivate(server, ui) == 0

StartIndex(server, ui) ==
    Only({(
    IF ui.password # "" /\ ui.password = S.cfg.sv_privatePassword
    THEN 0 ELSE S.cfg.sv_privateClients
    ) : S \in {server}})

BotCount(server, startIndex) ==
    Only({(
    Cardinality({i \in Slots : i >= startIndex /\ S.clients[i].adr.type = NA_BOT})
    ) : S \in {server}})

\* a server that answers the connect before it asks the game module
DC_Accept_AnswerFirst(server, from, ui, n, denied) ==
    Only({(
    LET new == Upd(ZeroClient,
                   [challenge |-> ui.challenge, adr |-> from,
                    qport |-> ui.qport, outgoingSequence |-> 1,
                    compat |-> (ui.protocol > 0
                                /\ S.cfg.com_legacyprotocol = ui.protocol),
                    userinfo |-> ui])
        S0 == IF S.clients[n].state # CS_FREE
              THEN SetState(S, n, CS_FREE) ELSE S
        S1 == [S0 EXCEPT !.clients[n] = new,
                         !.hist.thinkEver[n] = NoTime,
                         !.hist.thinkWorld[n] = NoTime,
                         !.hist.cmdAt[n] = <<>>,
                         !.ev.slot = n]
        S2 == Hook(S1, "client_connect", n)
        S3 == SV_UserinfoChanged(S2, n)
        S4 == NET_OutOfBandPrint(S3, from, "connectResponse")
        S5 == SetState(S4, n, CS_CONNECTED)
        S6 == SetClient(S5, n,
                 [lastSnapshotTime |-> 0, lastPacketTime |-> S.time,
                  lastConnectTime |-> S.time, numcmds |-> 0,
                  gamestateMessageNum |-> 0 - 1])
        count == Cardinality({i \in Slots :
                                 StateGE(S6.clients[i].state, CS_CONNECTED)})
        S7 == IF count = 1 \/ count = MaxClients THEN SV_Heartbeat_f(S6) ELSE S6
    IN  IF denied
        THEN SetEv(NET_OutOfBandPrint(
                       [S5 EXCEPT !.hist.told[n] = "rejected"],
                       from, "print denied"),
                   [result |-> "denied"])
        ELSE SetEv([S7 EXCEPT !.hist.connectAt[n] = S.time],
                   [result |-> "accepted", from |-> from,
                    nonce |-> ui.challenge])
    ) : S \in {server}})

\* lines 421-493: build the connection in slot n
DC_Accept(server, from, ui, n, denied) ==
    Only({(
    LET new == Upd(ZeroClient,
                   [challenge |-> ui.challenge, adr |-> from,
                    qport |-> ui.qport, outgoingSequence |-> 1,
                    compat |-> (ui.protocol > 0
                                /\ S.cfg.com_legacyprotocol = ui.protocol),
                    userinfo |-> ui])
        S0 == IF S.clients[n].state # CS_FREE
              THEN SetState(S, n, CS_FREE) ELSE S
        S1 == [S0 EXCEPT !.clients[n] = new,
                         !.hist.thinkEver[n] = NoTime,
                         !.hist.thinkWorld[n] = NoTime,
                         !.hist.cmdAt[n] = <<>>,
                         !.ev.slot = n]
        S2 == Hook(S1, "client_connect", n)
        S3 == SV_UserinfoChanged(S2, n)
        S4 == NET_OutOfBandPrint(S3, from, "connectResponse")
        S5 == SetState(S4, n, CS_CONNECTED)
        S6 == SetClient(S5, n,
                 [lastSnapshotTime |-> 0, lastPacketTime |-> S.time,
                  lastConnectTime |-> S.time, numcmds |-> 0,
                  gamestateMessageNum |-> 0 - 1])
        count == Cardinality({i \in Slots :
                                 StateGE(S6.clients[i].state, CS_CONNECTED)})
        S7 == IF count = 1 \/ count = MaxClients THEN SV_Heartbeat_f(S6) ELSE S6
    IN  IF denied
        THEN SetEv(NET_OutOfBandPrint(
                       [S2 EXCEPT !.hist.told[n] = "rejected"],
                       from, "print denied"),
                   [result |-> "denied"])
        ELSE SetEv([S7 EXCEPT !.hist.connectAt[n] = S.time],
                   [result |-> "accepted", from |-> from,
                    nonce |-> ui.challenge])
    ) : S \in {server}})

\* lines 339-419: choose the slot
DC_Slot(server, from, ui, denied) ==
    Only({(
    LET peers == PeerSlots(S, from, ui.qport)
        startIndex == StartIndex(S, ui)
        free == FreeSlots(S, startIndex)
        last == MaxClients - 1
    IN  IF peers # {}
        THEN DC_Accept(SetEv(S, [reuse |-> TRUE]), from, ui, Least(peers), denied)
        ELSE IF free # {}
        THEN DC_Accept(S, from, ui, Least(free), denied)
        ELSE IF NET_IsLocalAddress(from)
        THEN IF BotCount(S, startIndex) >= MaxClients - startIndex
             THEN DC_Accept(SV_DropClient(S, last, "only bots on server"),
                            from, ui, last, denied)
             ELSE SetEv(S, [result |-> "fatal"])
        ELSE SetEv(NET_OutOfBandPrint(S, from, "print Server is full"),
                   [result |-> "full"])
    ) : S \in {server}})

SV_DirectConnect(server, from, ui0, denied) ==
    Only({(
    LET compat == ui0.protocol > 0 /\ S.cfg.com_legacyprotocol = ui0.protocol
        ui == Info_SetIp(ui0, IpStrLen(from))
        S0 == SetEv(S, [peer |-> [adr |-> from, qport |-> ui0.qport,
                                  challenge |-> ui0.challenge,
                                  protocol |-> ui0.protocol,
                                  password |-> ui0.password]])
        S1 == DC_Challenge(S0, from, ui0.challenge)
    IN  IF SV_IsBanned(S, from)
        THEN SetEv(NET_OutOfBandPrint(S0, from, "print You are banned"),
                   [result |-> "banned"])
        ELSE IF ~compat /\ ui0.protocol # S.cfg.com_protocol
        THEN SetEv(NET_OutOfBandPrint(S0, from, "print Server uses protocol"),
                   [result |-> "protocol"])
        ELSE IF ReconnectTooSoon(S, from, ui0.qport)
        THEN SetEv(S0, [result |-> "toosoon"])
        ELSE IF IpStrLen(from) + ui0.len + 4 >= MAX_INFO_STRING
        THEN SetEv(NET_OutOfBandPrint(S0, from, "print Userinfo string length exceeded"),
                   [result |-> "overflow"])
        ELSE IF S1.ev.result # "" THEN S1
        ELSE DC_Slot(S1, from, ui, denied)
    ) : S \in {server}})

(***************************************************************************)
(* SV_VerifyPaks_f.  argv is the tokenised command, argv[1] = "cp"; a      *)
(* token is kept as [at, n]: whether it starts with '@', and its atoi.     *)
(***************************************************************************)
Tok(n) == [at |-> FALSE, n |-> n]
AtTok == [at |-> TRUE, n |-> 0]

\* Cmd_Argv(k): the empty string past the end
Cmd_Argv(argv, k) == IF k + 1 <= Len(argv) THEN argv[k + 1] ELSE Tok(0)

RECURSIVE XorN(_, _)
\* a ^ b on non-negative integers
XorN(a, b) ==
    IF a = 0 THEN b
    ELSE IF b = 0 THEN a
    ELSE (((a % 2) + (b % 2)) % 2) + (2 * XorN(a \div 2, b \div 2))

RECURSIVE XorAll(_, _, _)
\* acc ^ chk[1] ^ ... ^ chk[n]
XorAll(acc, chk, n) ==
    IF n = 0 THEN acc ELSE XorAll(XorN(acc, chk[n]), chk, n - 1)

\* a ladder whose fold leaves the number of checksums out
PaksGood_NoCount(cf, argv) ==
    LET argc == Len(argv)
        chk == [k \in 1 .. (argc - 5) |-> Cmd_Argv(argv, 4 + k).n]
        n == (argc - 5) - 1
    IN  /\ cf.cgameInPak /\ cf.uiInPak
        /\ argc >= 6
        /\ ~Cmd_Argv(argv, 2).at /\ Cmd_Argv(argv, 2).n = cf.cgameChk
        /\ ~Cmd_Argv(argv, 3).at /\ Cmd_Argv(argv, 3).n = cf.uiChk
        /\ Cmd_Argv(argv, 4).at
        /\ \A a, b \in 1 .. n : a # b => chk[a] # chk[b]
        /\ \A a \in 1 .. n : chk[a] \in cf.pakChecksums
        /\ XorAll(cf.checksumFeed, chk, n) = chk[n + 1]

\* lines 922-1013: the value of bGood when the ladder is left
PaksGood(cf, argv) ==
    LET argc == Len(argv)
        \* nClientChkSum[0 ..]: the arguments from the fifth on
        chk == [k \in 1 .. (argc - 5) |-> Cmd_Argv(argv, 4 + k).n]
        n == (argc - 5) - 1
    IN  /\ cf.cgameInPak /\ cf.uiInPak
        /\ argc >= 6
        /\ ~Cmd_Argv(argv, 2).at /\ Cmd_Argv(argv, 2).n = cf.cgameChk
        /\ ~Cmd_Argv(argv, 3).at /\ Cmd_Argv(argv, 3).n = cf.uiChk
        /\ Cmd_Argv(argv, 4).at
        /\ \A a, b \in 1 .. n : a # b => chk[a] # chk[b]
        /\ \A a \in 1 .. n : chk[a] \in cf.pakChecksums
        /\ XorN(XorAll(cf.checksumFeed, chk, n), n) = chk[n + 1]

SV_SendClientSnapshot(S, i) ==
    [SV_SendMessageToClient(S, i) EXCEPT !.ev.snapshots = @ + 1]

\* a verifier that does not ignore a cp of an earlier checksum feed
SV_VerifyPaks_f_NoEpoch(server, i, argv) ==
    Only({(
    LET S1 == SetClient(S, i, [gotCP |-> TRUE])
        bad1 == SetClient(S1, i, [pureAuthentic |-> 0, lastSnapshotTime |-> 0])
        bad2 == SetState(bad1, i, CS_ACTIVE)
        bad3 == SV_SendClientSnapshot(bad2, i)
        left(T, how) ==
            [T EXCEPT !.ev.cps = Append(@, [argv |-> argv, how |-> how])]
    IN  IF S.cfg.sv_pure = 0 THEN S
        ELSE IF PaksGood(S.cfg, argv)
             THEN left(SetClient(S1, i, [pureAuthentic |-> 1]), "good")
             ELSE left(SV_DropClient(bad3, i, "Unpure client detected"), "bad")
    ) : S \in {server}})

\* a verifier that keeps the client of a bad cp
SV_VerifyPaks_f_KeepUnpure(server, i, argv) ==
    Only({(
    LET S1 == SetClient(S, i, [gotCP |-> TRUE])
        bad1 == SetClient(S1, i, [pureAuthentic |-> 0, lastSnapshotTime |-> 0])
        bad2 == SetState(bad1, i, CS_ACTIVE)
        bad3 == SV_SendClientSnapshot(bad2, i)
        left(T, how) ==
            [T EXCEPT !.ev.cps = Append(@, [argv |-> argv, how |-> how])]
    IN  IF S.cfg.sv_pure = 0 THEN S
        ELSE IF Cmd_Argv(argv, 1).n < S.cfg.checksumFeedServerId
             THEN left(S, "outdated")
        ELSE IF PaksGood(S.cfg, argv)
             THEN left(SetClient(S1, i, [pureAuthentic |-> 1]), "good")
             ELSE left(bad3, "bad")
    ) : S \in {server}})

SV_VerifyPaks_f(server, i, argv) ==
    Only({(
    LET S1 == SetClient(S, i, [gotCP |-> TRUE])
        bad1 == SetClient(S1, i, [pureAuthentic |-> 0, lastSnapshotTime |-> 0])
        bad2 == SetState(bad1, i, CS_ACTIVE)
        bad3 == SV_SendClientSnapshot(bad2, i)
        left(T, how) ==
            [T EXCEPT !.ev.cps = Append(@, [argv |-> argv, how |-> how])]
    IN  IF S.cfg.sv_pure = 0 THEN S
        ELSE IF Cmd_Argv(argv, 1).n < S.cfg.checksumFeedServerId
             THEN left(S, "outdated")
        ELSE IF PaksGood(S.cfg, argv)
             THEN left(SetClient(S1, i, [pureAuthentic |-> 1]), "good")
             ELSE left(SV_DropClient(bad3, i, "Unpure client detected"), "bad")
    ) : S \in {server}})

\* a vdr that forgets pureAuthentic
SV_ResetPureClient_f_KeepAuthentic(S, i) ==
    SetClient(S, i, [gotCP |-> FALSE])

\* SV_ResetPureClient_f
SV_ResetPureClient_f(S, i) ==
    SetClient(S, i, [pureAuthentic |-> 0, gotCP |-> FALSE])

\* SV_DoneDownload_f
SV_DoneDownload_f(server, i) ==
    Only({(
    IF S.clients[i].state = CS_ACTIVE THEN S ELSE SV_SendClientGameState(S, i)
    ) : S \in {server}})

\* a disconnect that frees the slot at once
SV_Disconnect_f_Free(S, i) == SetState(S, i, CS_FREE)

\* SV_Disconnect_f
SV_Disconnect_f(S, i) == SV_DropClient(S, i, "disconnected")

\* SV_UpdateUserinfo_f: info is the info string of the command
SV_UpdateUserinfo_f(server, i, info) ==
    Only({(
    LET cl == S.clients[i]
        S1 == SetClient(S, i, [userinfobuffer |-> FALSE,
                               nextReliableUserTime |-> S.time + 5000,
                               userinfo |-> info])
    IN  IF /\ S.cfg.sv_floodProtect # 0
           /\ StateGE(cl.state, CS_ACTIVE)
           /\ S.time < cl.nextReliableUserTime
        THEN SV_SendServerCommand(SetClient(S, i, [userinfobuffer |-> TRUE]),
                                  i, "print Command delayed")
        ELSE Hook(SV_UserinfoChanged(S1, i), "client_userinfo_changed", i)
    ) : S \in {server}})

(***************************************************************************)
(* SV_ExecuteClientCommand.  A command c is [name, ...]: "userinfo" has    *)
(* info, "cp" has argv, a chat command has overlong, the outcome of the    *)
(* length scan of lines 1282-1309.                                         *)
(***************************************************************************)
BuiltIn == {"userinfo", "disconnect", "cp", "vdr", "donedl", "voip"}
ChatCmds == {"say", "say_team", "tell", "ut_radio"}

\* the ucmds table
RunBuiltIn(server, i, c) ==
    Only({(
    CASE c.name = "userinfo" -> SV_UpdateUserinfo_f(S, i, c.info)
      [] c.name = "disconnect" -> SV_Disconnect_f(S, i)
      [] c.name = "cp" -> SV_VerifyPaks_f(S, i, c.argv)
      [] c.name = "vdr" -> SV_ResetPureClient_f(S, i)
      [] c.name = "donedl" -> SV_DoneDownload_f(S, i)
      [] OTHER -> S
    ) : S \in {server}})

\* a dispatcher that passes every unknown command to the game module
SV_ExecuteClientCommand_AlwaysOK(server, i, c, clientOK) ==
    Only({(
    IF c.name \in BuiltIn THEN RunBuiltIn(S, i, c)
    ELSE IF /\ S.cfg.ss_game
            /\ S.clients[i].state \in {CS_ACTIVE, CS_PRIMED}
    THEN IF c.name = "team" /\ (S.cfg.sv_teamSwitch # 0 \/ S.cfg.g_matchmode = 1)
         THEN S
         ELSE IF c.name \in ChatCmds /\ c.overlong
         THEN SV_SendServerCommand(S, i, "print Chat dropped")
         ELSE Hook(S, "client_command", i)
    ELSE S
    ) : S \in {server}})

\* a dispatcher that passes unknown commands on in every client state
SV_ExecuteClientCommand_AnyState(server, i, c, clientOK) ==
    Only({(
    IF c.name \in BuiltIn THEN RunBuiltIn(S, i, c)
    ELSE IF clientOK /\ S.cfg.ss_game
    THEN IF c.name = "team" /\ (S.cfg.sv_teamSwitch # 0 \/ S.cfg.g_matchmode = 1)
         THEN S
         ELSE IF c.name \in ChatCmds /\ c.overlong
         THEN SV_SendServerCommand(S, i, "print Chat dropped")
         ELSE Hook(S, "client_command", i)
    ELSE S
    ) : S \in {server}})

SV_ExecuteClientCommand(server, i, c, clientOK) ==
    Only({(
    IF c.name \in BuiltIn THEN RunBuiltIn(S, i, c)
    ELSE IF /\ clientOK
            /\ S.cfg.ss_game
            /\ S.clients[i].state \in {CS_ACTIVE, CS_PRIMED}
    THEN IF c.name = "team" /\ (S.cfg.sv_teamSwitch # 0 \/ S.cfg.g_matchmode = 1)
         THEN S
         ELSE IF c.name \in ChatCmds /\ c.overlong
         THEN SV_SendServerCommand(S, i, "print Chat dropped")
         ELSE Hook(S, "client_command", i)
    ELSE S
    ) : S \in {server}})

(***************************************************************************)
(* SV_ClientCommand: one clc_clientCommand block [seq, c].  ok = FALSE     *)
(* stops the parsing of the message.                                       *)
(***************************************************************************)
\* SV_ClientCommand without the test for a command already executed
SV_ClientCommand_NoDupTest(server, i, blk) ==
    Only({(
    LET cl == S.clients[i]
        guarded == /\ S.cfg.com_cl_running = 0
                   /\ StateGE(cl.state, CS_ACTIVE)
                   /\ S.cfg.sv_floodProtect # 0
        numcmds == IF ~guarded THEN cl.numcmds
                   ELSE IF S.time < cl.nextReliableTime THEN cl.numcmds + 1
                   ELSE 1
        clientOk == ~(/\ guarded
                      /\ S.time < cl.nextReliableTime
                      /\ numcmds > S.cfg.sv_floodProtect)
        S1 == SetClient(S, i, [numcmds |-> numcmds,
                               nextReliableTime |-> S.time + 1000])
        S2 == [S1 EXCEPT !.ev.exec =
                  Append(@, [blk |-> Len(S.ev.read), seq |-> blk.seq,
                             name |-> blk.c.name, ok |-> clientOk,
                             state |-> cl.state]),
                         !.hist.cmdAt[i] =
                  Append(@, [t |-> S.time,
                             active |-> StateGE(cl.state, CS_ACTIVE)])]
        S3 == SV_ExecuteClientCommand(S2, i, blk.c, clientOk)
        S4 == SetClient(S3, i, [lastClientCommand |-> blk.seq])
    IN  IF blk.seq > cl.lastClientCommand + 1
        THEN [S |-> SV_DropClient(S, i, "Lost reliable commands"), ok |-> FALSE]
        ELSE [S |-> S4, ok |-> TRUE]
    ) : S \in {server}})

\* a flood count that no pause resets
SV_ClientCommand_NoReset(server, i, blk) ==
    Only({(
    LET cl == S.clients[i]
        guarded == /\ S.cfg.com_cl_running = 0
                   /\ StateGE(cl.state, CS_ACTIVE)
                   /\ S.cfg.sv_floodProtect # 0
        numcmds == IF ~guarded THEN cl.numcmds
                   ELSE cl.numcmds + 1
        clientOk == ~(/\ guarded
                      /\ numcmds > S.cfg.sv_floodProtect)
        S1 == SetClient(S, i, [numcmds |-> numcmds,
                               nextReliableTime |-> S.time + 1000])
        S2 == [S1 EXCEPT !.ev.exec =
                  Append(@, [blk |-> Len(S.ev.read), seq |-> blk.seq,
                             name |-> blk.c.name, ok |-> clientOk,
                             state |-> cl.state]),
                         !.hist.cmdAt[i] =
                  Append(@, [t |-> S.time,
                             active |-> StateGE(cl.state, CS_ACTIVE)])]
        S3 == SV_ExecuteClientCommand(S2, i, blk.c, clientOk)
        S4 == SetClient(S3, i, [lastClientCommand |-> blk.seq])
    IN  IF cl.lastClientCommand >= blk.seq
        THEN [S |-> S, ok |-> TRUE]
        ELSE IF blk.seq > cl.lastClientCommand + 1
        THEN [S |-> SV_DropClient(S, i, "Lost reliable commands"), ok |-> FALSE]
        ELSE [S |-> S4, ok |-> TRUE]
    ) : S \in {server}})

SV_ClientCommand(server, i, blk) ==
    Only({(
    LET cl == S.clients[i]
        guarded == /\ S.cfg.com_cl_running = 0
                   /\ StateGE(cl.state, CS_ACTIVE)
                   /\ S.cfg.sv_floodProtect # 0
        numcmds == IF ~guarded THEN cl.numcmds
                   ELSE IF S.time < cl.nextReliableTime THEN cl.numcmds + 1
                   ELSE 1
        clientOk == ~(/\ guarded
                      /\ S.time < cl.nextReliableTime
                      /\ numcmds > S.cfg.sv_floodProtect)
        S1 == SetClient(S, i, [numcmds |-> numcmds,
                               nextReliableTime |-> S.time + 1000])
        S2 == [S1 EXCEPT !.ev.exec =
                  Append(@, [blk |-> Len(S.ev.read), seq |-> blk.seq,
                             name |-> blk.c.name, ok |-> clientOk,
                             state |-> cl.state]),
                         !.hist.cmdAt[i] =
                  Append(@, [t |-> S.time,
                             active |-> StateGE(cl.state, CS_ACTIVE)])]
        S3 == SV_ExecuteClientCommand(S2, i, blk.c, clientOk)
        S4 == SetClient(S3, i, [lastClientCommand |-> blk.seq])
    IN  IF cl.lastClientCommand >= blk.seq
        THEN [S |-> S, ok |-> TRUE]
        ELSE IF blk.seq > cl.lastClientCommand + 1
        THEN [S |-> SV_DropClient(S, i, "Lost reliable commands"), ok |-> FALSE]
        ELSE [S |-> S4, ok |-> TRUE]
    ) : S \in {server}})

(***************************************************************************)
(* SV_ClientThink and SV_UserMove.  A usercmd is its serverTime.           *)
(***************************************************************************)
SV_ClientThink(server, i, t) ==
    Only({(
    LET S1 == SetClient(S, i, [lastUsercmd |-> t])
        S2 == Hook(S1, "client_think", i)
    IN  IF S.clients[i].state # CS_ACTIVE THEN S1
        ELSE [S2 EXCEPT
                !.ev.thinks = Append(@, [t |-> t,
                                         last |-> S.clients[i].lastUsercmd,
                                         ever |-> S.hist.thinkEver[i],
                                         world |-> S.hist.thinkWorld[i]]),
                !.hist.thinkEver[i] = t,
                !.hist.thinkWorld[i] = t]
    ) : S \in {server}})

\* a skip test that lets the usercmd last executed through once more
SkipUsercmd_Repeat(S, i, cmds, k) ==
    \/ cmds[k] > cmds[Len(cmds)]
    \/ cmds[k] < S.clients[i].lastUsercmd

\* lines 1502-1517, with the two tests that skip a usercmd
SkipUsercmd(S, i, cmds, k) ==
    \/ cmds[k] > cmds[Len(cmds)]
    \/ cmds[k] <= S.clients[i].lastUsercmd

RECURSIVE ThinkLoop(_, _, _, _)
ThinkLoop(server, i, cmds, k) ==
    Only({(
    IF k > Len(cmds) THEN S
    ELSE IF SkipUsercmd(S, i, cmds, k) THEN ThinkLoop(S, i, cmds, k + 1)
    ELSE ThinkLoop(SV_ClientThink(S, i, cmds[k]), i, cmds, k + 1)
    ) : S \in {server}})

\* mv = [delta, count, cmds]: cmds holds the count usercmds read
\* a SV_UserMove without the test for a client that sent no cp yet
SV_UserMove_NoGate(server, i, mv) ==
    Only({(
    LET S1 == SetClient(S, i,
                 [deltaMessage |-> IF mv.delta
                                   THEN S.clients[i].messageAcknowledge
                                   ELSE 0 - 1])
        cl == S1.clients[i]
    IN  IF mv.count < 1 \/ mv.count > MAX_PACKET_USERCMDS THEN S1
        ELSE Only({(
                 IF S.cfg.sv_pure # 0 /\ S2.clients[i].pureAuthentic = 0
                 THEN SV_DropClient(S2, i, "Cannot validate pure client!")
                 ELSE IF S2.clients[i].state # CS_ACTIVE
                 THEN SetClient(S2, i, [deltaMessage |-> 0 - 1])
                 ELSE ThinkLoop(S2, i, mv.cmds, 1)
             ) : S2 \in {IF cl.state = CS_PRIMED
                         THEN SV_ClientEnterWorld(S1, i, mv.cmds[1])
                         ELSE S1}})
    ) : S \in {server}})

SV_UserMove(server, i, mv) ==
    Only({(
    LET S1 == SetClient(S, i,
                 [deltaMessage |-> IF mv.delta
                                   THEN S.clients[i].messageAcknowledge
                                   ELSE 0 - 1])
        cl == S1.clients[i]
    IN  IF mv.count < 1 \/ mv.count > MAX_PACKET_USERCMDS THEN S1
        ELSE IF S.cfg.sv_pure # 0 /\ cl.pureAuthentic = 0 /\ ~cl.gotCP
        THEN (IF cl.state = CS_ACTIVE THEN SV_SendClientGameState(S1, i) ELSE S1)
        ELSE Only({(
                 IF S.cfg.sv_pure # 0 /\ S2.clients[i].pureAuthentic = 0
                 THEN SV_DropClient(S2, i, "Cannot validate pure client!")
                 ELSE IF S2.clients[i].state # CS_ACTIVE
                 THEN SetClient(S2, i, [deltaMessage |-> 0 - 1])
                 ELSE ThinkLoop(S2, i, mv.cmds, 1)
             ) : S2 \in {IF cl.state = CS_PRIMED
                         THEN SV_ClientEnterWorld(S1, i, mv.cmds[1])
                         ELSE S1}})
    ) : S \in {server}})

(***************************************************************************)
(* SV_ExecuteClientMessage.  msg = [serverId, messageAcknowledge,          *)
(* reliableAcknowledge, cmds, tail, mv]: cmds the clc_clientCommand        *)
(* blocks, tail the byte after them ("clc_EOF", "clc_move",                *)
(* "clc_moveNoDelta" or "bad").                                            *)
(***************************************************************************)
RECURSIVE CommandLoop_NoStop(_, _, _, _)
\* a loop that reads on after SV_ClientCommand returned qfalse
CommandLoop_NoStop(server, i, cmds, k) ==
    Only({(
    IF k > Len(cmds) THEN [S |-> S, go |-> TRUE]
    ELSE Only({(
             CommandLoop_NoStop(r.S, i, cmds, k + 1)
         ) : r \in {SV_ClientCommand(
                        [S EXCEPT !.ev.read =
                            Append(@, [seq |-> cmds[k].seq,
                                       last |-> S.clients[i].lastClientCommand])],
                        i, cmds[k])}})
    ) : S \in {server}})

RECURSIVE CommandLoop_PastZombie(_, _, _, _)
\* a loop without the return for a client its own command made a ZOMBIE
CommandLoop_PastZombie(server, i, cmds, k) ==
    Only({(
    IF k > Len(cmds) THEN [S |-> S, go |-> TRUE]
    ELSE Only({(
             IF ~r.ok THEN [S |-> r.S, go |-> FALSE]
             ELSE CommandLoop_PastZombie(r.S, i, cmds, k + 1)
         ) : r \in {SV_ClientCommand(
                        [S EXCEPT !.ev.read =
                            Append(@, [seq |-> cmds[k].seq,
                                       last |-> S.clients[i].lastClientCommand])],
                        i, cmds[k])}})
    ) : S \in {server}})

RECURSIVE CommandLoop(_, _, _, _)
\* lines 1702-1718; go = FALSE: the handler returned inside the loop
CommandLoop(server, i, cmds, k) ==
    Only({(
    IF k > Len(cmds) THEN [S |-> S, go |-> TRUE]
    ELSE Only({(
             IF ~r.ok THEN [S |-> r.S, go |-> FALSE]
             ELSE IF r.S.clients[i].state = CS_ZOMBIE
             THEN [S |-> r.S, go |-> FALSE]
             ELSE CommandLoop(r.S, i, cmds, k + 1)
         ) : r \in {SV_ClientCommand(
                        [S EXCEPT !.ev.read =
                            Append(@, [seq |-> cmds[k].seq,
                                       last |-> S.clients[i].lastClientCommand])],
                        i, cmds[k])}})
    ) : S \in {server}})

\* a server that takes no message for one of before the map_restart
PreMapRestart_Never(cf, serverId) == FALSE

\* line 1680: the message was written before the client saw the map_restart
PreMapRestart(cf, serverId) ==
    serverId >= cf.restartedServerId /\ serverId < cf.serverId

\* a test that takes every message of a client not in the world for the
\* sign of a lost gamestate
DroppedGamestate_AnyAck(cl) == cl.state # CS_ACTIVE

\* line 1687: the client acknowledges a message later than the gamestate
DroppedGamestate(cl) ==
    cl.state # CS_ACTIVE /\ cl.messageAcknowledge > cl.gamestateMessageNum

\* "#ifndef NDEBUG SV_DropClient(...) #endif"
DebugDrop(server, i) ==
    Only({(
    IF S.cfg.ndebug THEN S ELSE SV_DropClient(S, i, "DEBUG: illegible client message")
    ) : S \in {server}})

\* SV_ExecuteClientMessage that keeps an acknowledge it found out of range
SV_ExecuteClientMessage_KeepAck(server, i, msg) ==
    Only({(
    LET S1 == SetClient(S, i, [messageAcknowledge |-> msg.messageAcknowledge])
        S2 == SetClient(S1, i, [reliableAcknowledge |-> msg.reliableAcknowledge])
        cl == S2.clients[i]
    IN  IF msg.messageAcknowledge < 0
        THEN SetEv(DebugDrop(S1, i), [result |-> "illegible message"])
        ELSE IF cl.reliableAcknowledge < cl.reliableSequence - MAX_RELIABLE_COMMANDS
        THEN SetEv(DebugDrop(S2, i), [result |-> "illegible acknowledge"])
        ELSE IF msg.serverId # S.cfg.serverId
        THEN IF PreMapRestart(S.cfg, msg.serverId)
             THEN SetEv(S2, [result |-> "pre map_restart"])
             ELSE IF DroppedGamestate(cl)
             THEN SetEv(SV_SendClientGameState(S2, i), [result |-> "resend"])
             ELSE SetEv(S2, [result |-> "other gamestate"])
        ELSE Only({(
                 IF ~r.go THEN SetEv(r.S, [result |-> "stopped"])
                 ELSE IF msg.tail \in {"clc_move", "clc_moveNoDelta"}
                 THEN SetEv(SV_UserMove(r.S, i, [msg.mv EXCEPT !.delta = (msg.tail = "clc_move")]),
                            [result |-> "parsed"])
                 ELSE SetEv(r.S, [result |-> "parsed"])
             ) : r \in {CommandLoop(SetEv(S2, [sent |-> Len(msg.cmds)]),
                                    i, msg.cmds, 1)}})
    ) : S \in {server}})

SV_ExecuteClientMessage(server, i, msg) ==
    Only({(
    LET S1 == SetClient(S, i, [messageAcknowledge |-> msg.messageAcknowledge])
        S2 == SetClient(S1, i, [reliableAcknowledge |-> msg.reliableAcknowledge])
        cl == S2.clients[i]
    IN  IF msg.messageAcknowledge < 0
        THEN SetEv(DebugDrop(S1, i), [result |-> "illegible message"])
        ELSE IF cl.reliableAcknowledge < cl.reliableSequence - MAX_RELIABLE_COMMANDS
        THEN Only({(
                 SetEv(SetClient(D, i, [reliableAcknowledge |->
                                            D.clients[i].reliableSequence]),
                       [result |-> "illegible acknowledge"])
             ) : D \in {DebugDrop(S2, i)}})
        ELSE IF msg.serverId # S.cfg.serverId
        THEN IF PreMapRestart(S.cfg, msg.serverId)
             THEN SetEv(S2, [result |-> "pre map_restart"])
             ELSE IF DroppedGamestate(cl)
             THEN SetEv(SV_SendClientGameState(S2, i), [result |-> "resend"])
             ELSE SetEv(S2, [result |-> "other gamestate"])
        ELSE Only({(
                 IF ~r.go THEN SetEv(r.S, [result |-> "stopped"])
                 ELSE IF msg.tail \in {"clc_move", "clc_moveNoDelta"}
                 THEN SetEv(SV_UserMove(r.S, i, [msg.mv EXCEPT !.delta = (msg.tail = "clc_move")]),
                            [result |-> "parsed"])
                 ELSE SetEv(r.S, [result |-> "parsed"])
             ) : r \in {CommandLoop(SetEv(S2, [sent |-> Len(msg.cmds)]),
                                    i, msg.cmds, 1)}})
    ) : S \in {server}})

(***************************************************************************)
(* The cvars, the build switches and the per-map values of sv.             *)
(***************************************************************************)
BaseCfg ==
    [sv_pure |-> 0, sv_privateClients |-> 0, sv_privatePassword |-> "",
     sv_reconnectlimit |-> 1, sv_clientsPerIp |-> 0, sv_minPing |-> 0,
     sv_maxPing |-> 0, sv_floodProtect |-> 2, sv_fps |-> 20,
     sv_lanForceRate |-> 1, sv_zombietime |-> 1, sv_teamSwitch |-> 0,
     g_matchmode |-> 0, com_dedicated |-> 2, com_cl_running |-> 0,
     com_protocol |-> 68, com_legacyprotocol |-> 0, singlePlayer |-> FALSE,
     ndebug |-> TRUE, ss_game |-> TRUE, serverBans |-> <<>>,
     serverId |-> 2, restartedServerId |-> 1, checksumFeedServerId |-> 2,
     checksumFeed |-> 5, cgameChk |-> 1, uiChk |-> 2,
     cgameInPak |-> TRUE, uiInPak |-> TRUE, pakChecksums |-> {3, 4}]

(***************************************************************************)
(* The counters the model bounds.                                          *)
(***************************************************************************)
InBounds(server) ==
    Only({(
    \A i \in Slots :
        /\ S.clients[i].reliableSequence <= MaxSeq
        /\ S.clients[i].outgoingSequence <= MaxOut
    ) : S \in {server}})

\* the variables take the values of the aggregate a handler returned
Becomes(server) ==
    \E S \in {server} :
        /\ InBounds(S)
        /\ time' = S.time
        /\ clients' = S.clients
        /\ challenges' = S.challenges
        /\ ev' = S.ev
        /\ hist' = S.hist
        /\ UNCHANGED cfg

(***************************************************************************)
(* The operations.  A profile P names the inputs a specification draws:    *)
(* P.adrs, P.nonces, P.infos (connect userinfo strings), P.msgs (the       *)
(* in-band messages of a client, by the lastClientCommand it has reached), *)
(* P.tickMs and P.ticks (svs.time advances P.ticks times by P.tickMs),     *)
(* P.bots (the sets of slots that may hold a bot from the start).          *)
(***************************************************************************)
\* a "getchallenge" datagram
GetChallenge(P) ==
    \E from \in P.adrs, nonce \in P.nonces, gameOK \in BOOLEAN,
       limited \in P.limited :
        Becomes(SV_GetChallenge(Begin("getchallenge", NoSlot),
                                from, 42, gameOK, limited, nonce))

\* a "connect" datagram; denied is the answer of the game module
DirectConnect(P) ==
    \E from \in P.adrs, ui \in P.infos, denied \in BOOLEAN :
        Becomes(SV_DirectConnect(Begin("connect", NoSlot), from, ui, denied))

\* SV_PacketEvent: a sequenced datagram of a connected client.  Datagrams
\* for FREE slots have no taker and those of a ZOMBIE are absorbed.
SV_PacketEvent(server, i, msg) ==
    Only({(
    SV_ExecuteClientMessage(
        SetEv(SetClient(S, i, [lastPacketTime |-> S.time]),
              [hdr |-> [serverId |-> msg.serverId,
                        messageAcknowledge |-> msg.messageAcknowledge,
                        reliableAcknowledge |-> msg.reliableAcknowledge,
                        cmds |-> Len(msg.cmds), moves |-> msg.mv.count,
                        tail |-> msg.tail]]),
        i, msg)
    ) : S \in {server}})

PacketEvent(P) ==
    \E i \in Slots :
        /\ clients[i].state \notin {CS_FREE, CS_ZOMBIE}
        /\ clients[i].adr.type # NA_BOT
        /\ \E msg \in P.msgs[clients[i].lastClientCommand] :
               Becomes(SV_PacketEvent(Begin("message", i), i, msg))

\* the server drops a client (kick, timeout)
Drop ==
    \E i \in Slots :
        /\ clients[i].state # CS_FREE
        /\ Becomes(SV_DropClient(Begin("drop", i), i, "was kicked"))

\* SV_CheckTimeouts: a ZOMBIE is freed once its last packet is older than
\* the linger
SV_FreeZombie(S, i) == SetState(S, i, CS_FREE)

CheckTimeouts ==
    \E i \in Slots :
        /\ clients[i].state = CS_ZOMBIE
        /\ clients[i].lastPacketTime < time - 1000 * cfg.sv_zombietime
        /\ Becomes(SV_FreeZombie(Begin("timeout", i), i))

\* the game module or the console queues a reliable command
ServerCommand ==
    \E to \in Slots \cup {NoSlot} :
        Becomes(SV_SendServerCommand(Begin("servercommand", to), to, "print"))

\* SV_SendClientMessages: the frame sends a snapshot to every client whose
\* snapshotMsec has passed since the last one
SV_SendClientMessages(server, i) ==
    Only({(
    SetClient(SV_SendClientSnapshot(S, i), i, [lastSnapshotTime |-> S.time])
    ) : S \in {server}})

SendClientMessages ==
    \E i \in Slots :
        /\ StateGE(clients[i].state, CS_CONNECTED)
        /\ time - clients[i].lastSnapshotTime >= clients[i].snapshotMsec
        /\ Becomes(SV_SendClientMessages(Begin("snapshot", i), i))

\* svs.time advances
Tick(P) ==
    /\ time + P.tickMs <= P.ticks * P.tickMs
    /\ Becomes([Begin("tick", NoSlot) EXCEPT !.time = time + P.tickMs])

Init(P) ==
    /\ cfg \in P.cfgs
    /\ time = 0
    /\ \E b \in P.bots :
           clients = [i \in Slots |-> IF i \in b THEN BotClient ELSE ZeroClient]
    /\ challenges = [k \in ChIdx |-> ZeroChallenge]
    /\ ev = EmptyEv("init", NoSlot)
    /\ hist = EmptyHist

(***************************************************************************)
(* Inputs.                                                                 *)
(***************************************************************************)
A1 == Adr(NA_IP, "A", 1)
A2 == Adr(NA_IP, "A", 2)

\* the userinfo of a connect datagram with this challenge and qport
ConnectInfo(challenge, qport) ==
    Upd(EmptyInfo, [len |-> 40, protocol |-> 68, challenge |-> challenge,
                    qport |-> qport])

NoMove == [delta |-> FALSE, count |-> 0, cmds |-> <<>>]
Move(cmds) == [delta |-> TRUE, count |-> Len(cmds), cmds |-> cmds]

Msg(serverId, mack, rack, cmds, tail, mv) ==
    [serverId |-> serverId, messageAcknowledge |-> mack,
     reliableAcknowledge |-> rack, cmds |-> cmds, tail |-> tail, mv |-> mv]

Cmd(seq, name) == [seq |-> seq, c |-> [name |-> name]]

\* every reliable sequence number a client has reached gets the same messages
Always(msgs) == [n \in 0 .. MaxSeq |-> msgs]

NoMsgs == Always({})

\* no cooldown, no linger: a peer may reconnect at once
Quick == Upd(BaseCfg, [sv_reconnectlimit |-> 0, sv_zombietime |-> 0])

(***************************************************************************)
(* Spec: the handshake.  Two peers of one remote host, every nonce.        *)
(***************************************************************************)
Hand ==
    [cfgs |-> {Quick},
     adrs |-> {A1, A2},
     nonces |-> 0 .. MaxNonce,
     limited |-> {FALSE},
     infos |-> {ConnectInfo(c, 1) : c \in 0 .. MaxNonce},
     msgs |-> NoMsgs,
     tickMs |-> 1000,
     ticks |-> MaxTicks,
     bots |-> {{}}]

Next ==
    \/ GetChallenge(Hand)
    \/ DirectConnect(Hand)
    \/ Drop

Spec == Init(Hand) /\ [][Next]_vars

Accepted == ev.op = "connect" /\ ev.result = "accepted"

\* C1: when a connect from a non-LAN address is accepted (slot CONNECTED,
\* connectResponse sent), the challenge table holds a record of that address
\* with the nonce of the connect's userinfo, written by an earlier
\* getchallenge from that address; for fresh and for reused slots.
HandshakeIntegrity ==
    (Accepted /\ ~Sys_IsLANAddress(ev.from)) =>
        /\ clients[ev.slot].state = CS_CONNECTED
        /\ \E k \in 1 .. Len(ev.oob) :
               ev.oob[k] = [to |-> ev.from, text |-> "connectResponse"]
        /\ <<ev.from, ev.nonce>> \in hist.issued
        /\ \E k \in ChIdx : /\ challenges[k].adr = ev.from
                             /\ challenges[k].challenge = ev.nonce

\* C1 witness: a connect from a remote address accepted into a reused slot
HandshakeIntegrityReached ==
    Accepted /\ ~Sys_IsLANAddress(ev.from) /\ ev.reuse

(***************************************************************************)
(* SpecFree: the slots that become FREE.  One peer whose connects the game *)
(* module may reject, and a server whose last slot may hold a bot.         *)
(***************************************************************************)
Free ==
    [cfgs |-> {Quick},
     adrs |-> {A1},
     nonces |-> {1},
     limited |-> {FALSE},
     infos |-> {ConnectInfo(1, 1)},
     msgs |-> NoMsgs,
     tickMs |-> 1000,
     ticks |-> MaxTicks,
     bots |-> {{}, {MaxClients - 1}}]

NextFree ==
    \/ GetChallenge(Free)
    \/ DirectConnect(Free)
    \/ Drop
    \/ CheckTimeouts
    \/ Tick(Free)

SpecFree == Init(Free) /\ [][NextFree]_vars

\* C10 as stated: a FREE slot has no remote address and no qport installed
FreeSlotHasNoChannel ==
    \A i \in Slots :
        clients[i].state = CS_FREE =>
            clients[i].adr = NoAdr /\ clients[i].qport = 0

\* C10 amended: the address and qport left in a FREE slot are never used as
\* a channel: no connect takes a FREE slot for the existing slot of its
\* peer, and only a connect that initialises the slot writes them.
FreeChannelIsDead ==
    [][\A i \in Slots :
          clients[i].state = CS_FREE =>
              /\ ~(ev'.op = "connect" /\ ev'.slot = i /\ ev'.reuse)
              /\ (clients'[i].adr # clients[i].adr
                    \/ clients'[i].qport # clients[i].qport)
                 => (ev'.op = "connect" /\ ev'.slot = i)]_vars

\* C10 witness: the game module rejected a connect; the slot is FREE and
\* holds the address and qport of the rejected peer
FreeChannelIsDeadReached ==
    /\ ev.op = "connect" /\ ev.result = "denied"
    /\ clients[ev.slot].state = CS_FREE
    /\ clients[ev.slot].adr \in Free.adrs
    /\ clients[ev.slot].qport # 0

(***************************************************************************)
(* SpecRel: the reliable channel of one peer.  A client that has reached   *)
(* lastClientCommand n sends messages of every header acknowledge, and     *)
(* messages of one or two reliable commands that repeat a sequence number  *)
(* (n and below), carry the next one (n + 1) or skip some (n + 2 and up);  *)
(* the server queues commands of its own.                                  *)
(***************************************************************************)
RelCmds(n) ==
    LET lists ==
            {<<>>}
            \cup {<<Cmd(s, x)>> : s \in (n - 1) .. (n + 2),
                                 x \in {"other", "disconnect"}}
            \cup {<<Cmd(n + 1, "other"), Cmd(t, "other")>> : t \in n .. (n + 3)}
            \cup {<<Cmd(n, "other"), Cmd(n + 1, "other")>>,
                  <<Cmd(n + 2, "other"), Cmd(n + 1, "other")>>,
                  <<Cmd(n + 1, "disconnect"), Cmd(n + 2, "donedl")>>}
    IN  {c \in lists : \A k \in 1 .. Len(c) : c[k].seq \in 0 .. MaxSeq}

RelMsgs(n) ==
    {Msg(0, 0, 0, <<>>, "clc_EOF", NoMove),
     Msg(2, 0 - 1, 0, <<>>, "clc_EOF", NoMove)}
    \cup {Msg(2, 0, r, <<>>, "clc_EOF", NoMove) : r \in 0 .. MAX_RELIABLE_COMMANDS}
    \cup {Msg(2, 0, 0, c, "clc_move", Move(<<1>>)) : c \in RelCmds(n)}

Rel ==
    [cfgs |-> {Quick, Upd(Quick, [ndebug |-> FALSE])},
     adrs |-> {A1},
     nonces |-> {1},
     limited |-> {FALSE},
     infos |-> {ConnectInfo(1, 1)},
     msgs |-> [n \in 0 .. MaxSeq |-> RelMsgs(n)],
     tickMs |-> 1000,
     ticks |-> MaxTicks,
     bots |-> {{}}]

NextRel ==
    \/ GetChallenge(Rel)
    \/ DirectConnect(Rel)
    \/ PacketEvent(Rel)
    \/ ServerCommand
    \/ Drop

SpecRel == Init(Rel) /\ [][NextRel]_vars

\* the command block ev.read[k] was executed
Executed(k) == \E e \in 1 .. Len(ev.exec) : ev.exec[e].blk = k

UsercmdHooks ==
    {k \in 1 .. Len(ev.hooks) : ev.hooks[k].name \in {"client_begin", "client_think"}}

\* C2: of the reliable commands a message holds, exactly those with
\* seq = lastClientCommand + 1 at the moment they are read are executed, so
\* the executed seq values go up by one; a command with seq <=
\* lastClientCommand is not executed again; a command with seq >
\* lastClientCommand + 1 drops the client with "Lost reliable commands", is
\* not executed, and no later block of the message is processed.
ReliableSequencing ==
    ev.op = "message" =>
        /\ \A k \in 1 .. Len(ev.read) :
              /\ Executed(k) <=> ev.read[k].seq = ev.read[k].last + 1
              /\ ev.read[k].seq > ev.read[k].last + 1 =>
                    /\ k = Len(ev.read)
                    /\ ev.drops = <<[slot |-> ev.slot,
                                     reason |-> "Lost reliable commands"]>>
                    /\ clients[ev.slot].state = CS_ZOMBIE
                    /\ ev.thinks = <<>> /\ UsercmdHooks = {}
        /\ \A e \in 1 .. Len(ev.exec) - 1 :
              ev.exec[e + 1].seq = ev.exec[e].seq + 1

\* C2 witness: a message of two commands; the first was executed, the second
\* skipped a sequence number and the usercmd block after it was left alone
ReliableSequencingReached ==
    /\ ev.op = "message" /\ ev.sent = 2 /\ Len(ev.read) = 2
    /\ Executed(1)
    /\ ev.read[2].seq > ev.read[2].last + 1

\* C3 as stated: a ZOMBIE slot stays ZOMBIE or becomes FREE, whatever runs
ZombieOnlyFrees ==
    [][\A i \in Slots :
          clients[i].state = CS_ZOMBIE =>
              clients'[i].state \in {CS_ZOMBIE, CS_FREE}]_vars

\* C3 amended: no assignment of a state inside any handler takes a slot
\* from ZOMBIE to CONNECTED, PRIMED or ACTIVE, and the one operation that
\* leaves a slot that was ZOMBIE in another state than ZOMBIE or FREE is a
\* connect of the same peer, which clears the slot and sets it CONNECTED.
ZombieLeavesOnlyByReconnect ==
    [][/\ \A k \in 1 .. Len(ev'.trans) :
             ev'.trans[k][2] = CS_ZOMBIE => ev'.trans[k][3] = CS_FREE
       /\ \A i \in Slots :
             (clients[i].state = CS_ZOMBIE
                /\ clients'[i].state \notin {CS_ZOMBIE, CS_FREE}) =>
                 /\ ev'.op = "connect" /\ ev'.slot = i /\ ev'.reuse
                 /\ clients'[i].state = CS_CONNECTED
                 /\ NET_CompareBaseAdr(clients'[i].adr, clients[i].adr)]_vars

\* C3 witness: a message whose first command disconnected the client held
\* a second command, and the slot is a ZOMBIE
ZombieKept ==
    /\ ev.op = "message" /\ ev.sent = 2 /\ Len(ev.read) = 1
    /\ \E e \in 1 .. Len(ev.exec) : ev.exec[e].name = "disconnect"
    /\ clients[ev.slot].state = CS_ZOMBIE

\* C6 as stated: after an in-band message reliableAcknowledge <=
\* reliableSequence, whatever acknowledge the header carried
AckNeverAhead ==
    ev.op = "message" =>
        clients[ev.slot].reliableAcknowledge <= clients[ev.slot].reliableSequence

LastCommandNeverDecreases ==
    [][\A i \in Slots :
          clients'[i].lastClientCommand >= clients[i].lastClientCommand]_vars

\* C8 amended: lastClientCommand of a slot never decreases across in-band
\* messages (duplicate and gapped commands included), drops and server
\* commands; only a connect that initialises the slot sets it back, to 0.
LastCommandDecreasesOnlyByConnect ==
    [][\A i \in Slots :
          clients'[i].lastClientCommand < clients[i].lastClientCommand =>
              /\ ev'.op = "connect" /\ ev'.slot = i
              /\ clients'[i].lastClientCommand = 0]_vars

\* C8 witness: a message whose second command repeats a sequence number
\* already executed leaves lastClientCommand where the first put it
LastCommandKept ==
    /\ ev.op = "message" /\ Len(ev.read) = 2
    /\ Executed(1) /\ ev.read[2].seq < ev.read[2].last
    /\ clients[ev.slot].lastClientCommand = ev.read[2].last

(***************************************************************************)
(* SpecPeers: two clients behind one remote host, told apart by source     *)
(* port and by qport.                                                      *)
(***************************************************************************)
Peers ==
    [cfgs |-> {Quick},
     adrs |-> {A1, A2},
     nonces |-> {1},
     limited |-> {FALSE},
     infos |-> {ConnectInfo(1, q) : q \in {1, 2}},
     msgs |-> NoMsgs,
     tickMs |-> 1000,
     ticks |-> MaxTicks,
     bots |-> {{}}]

NextPeers ==
    \/ GetChallenge(Peers)
    \/ DirectConnect(Peers)
    \/ Drop

SpecPeers == Init(Peers) /\ [][NextPeers]_vars

Live(i) == clients[i].state \in {CS_CONNECTED, CS_PRIMED, CS_ACTIVE}

\* C5 as stated: no two slots in CONNECTED, PRIMED or ACTIVE hold the same
\* remote base address and the same qport
OneSlotPerPeer ==
    \A i, j \in Slots :
        (i # j /\ Live(i) /\ Live(j)) =>
            ~(/\ NET_CompareBaseAdr(clients[i].adr, clients[j].adr)
              /\ clients[i].qport = clients[j].qport)

(***************************************************************************)
(* SpecMove: the usercmd pipeline of one peer on a pure server.  The       *)
(* client sends its reliable commands in sequence, one to a message: a cp  *)
(* the server accepts, a cp it rejects, a vdr; and batches of usercmds of  *)
(* every serverTime.                                                       *)
(***************************************************************************)
\* "cp 2 1 2 @ 3 7": serverId, cgame and ui checksums, one pak, the fold
\* 5 ^ 3 ^ 1 of checksumFeed, the pak and the count
CpGood == [name |-> "cp",
           argv |-> <<Tok(0), Tok(2), Tok(1), Tok(2), AtTok, Tok(3), Tok(7)>>]
CpBad == [name |-> "cp",
          argv |-> <<Tok(0), Tok(2), Tok(1), Tok(2), AtTok, Tok(3), Tok(0)>>]
Vdr == [name |-> "vdr"]

MoveCmds(n) ==
    {<<>>} \cup (IF n < MaxSeq
                 THEN {<<[seq |-> n + 1, c |-> c]>> : c \in {CpGood, CpBad, Vdr}}
                 ELSE {})

Batches ==
    {<<t>> : t \in 0 .. MaxServerTime}
    \cup {<<t, u>> : t, u \in 0 .. MaxServerTime}

MoveMsgs(n) ==
    {Msg(0, 0, 0, <<>>, "clc_EOF", NoMove)}
    \cup {Msg(2, 0, 0, c, "clc_EOF", NoMove) : c \in MoveCmds(n)}
    \cup {Msg(2, 0, 0, c, "clc_move", Move(b)) : c \in MoveCmds(n), b \in Batches}
    \cup {Msg(2, 0, 0, <<>>, "clc_moveNoDelta", Move(<<1>>))}

Pure ==
    [cfgs |-> {Upd(Quick, [sv_pure |-> 1])},
     adrs |-> {A1},
     nonces |-> {1},
     limited |-> {FALSE},
     infos |-> {ConnectInfo(1, 1)},
     msgs |-> [n \in 0 .. MaxSeq |-> MoveMsgs(n)],
     tickMs |-> 1000,
     ticks |-> MaxTicks,
     bots |-> {{}}]

NextMove ==
    \/ GetChallenge(Pure)
    \/ DirectConnect(Pure)
    \/ PacketEvent(Pure)
    \/ Drop

SpecMove == Init(Pure) /\ [][NextMove]_vars

\* C4 as stated: every client_think of a client is on a usercmd whose
\* serverTime is above that of the client's client_think before it
ThinkTimesIncrease ==
    ev.op = "message" =>
        \A k \in 1 .. Len(ev.thinks) :
            ev.thinks[k].ever # NoTime => ev.thinks[k].t > ev.thinks[k].ever

\* C4 amended: every client_think is on a usercmd whose serverTime is above
\* lastUsercmd.serverTime, that is above the serverTime of the client_think
\* before it since the client last entered the world, and above that of the
\* usercmd it entered the world with.
ThinkTimesIncreaseInWorld ==
    ev.op = "message" =>
        \A k \in 1 .. Len(ev.thinks) :
            /\ ev.thinks[k].t > ev.thinks[k].last
            /\ ev.thinks[k].world # NoTime => ev.thinks[k].t > ev.thinks[k].world

\* C4 witness: a client that had run client_think entered the world again
\* and ran client_think in the same message
ThinkAfterReentry ==
    /\ ev.op = "message" /\ Len(ev.thinks) > 0
    /\ ev.thinks[1].ever # NoTime /\ ev.thinks[1].world = NoTime

\* C9: pureAuthentic = 1 only with gotCP true, in every slot and state; so
\* whatever sets gotCP false (gamestate emission, vdr, slot initialisation)
\* leaves pureAuthentic 0.
AuthenticOnlyWithCP ==
    \A i \in Slots : clients[i].pureAuthentic = 1 => clients[i].gotCP

\* C9 witness: a vdr reached a client that was in the world of a pure
\* server, which takes pureAuthentic = 1, and left both flags clear
AuthenticCleared ==
    /\ ev.op = "message"
    /\ \E e \in 1 .. Len(ev.exec) : ev.exec[e].name = "vdr"
    /\ clients[ev.slot].state = CS_ACTIVE
    /\ ~clients[ev.slot].gotCP /\ clients[ev.slot].pureAuthentic = 0

(***************************************************************************)
(* SpecCp: the pure-content verifier.  One peer of a pure server sends cp  *)
(* commands: every list of up to two checksums with every folded value     *)
(* under a good head, and every head (serverId, cgame, ui, delimiter)      *)
(* under a good list; the server has its cgame module in a pak or not.     *)
(***************************************************************************)
CpArgv(sid, cg, ui, at, chks, folded) ==
    <<Tok(0), Tok(sid), cg, ui, at>>
        \o [k \in 1 .. Len(chks) |-> Tok(chks[k])] \o <<Tok(folded)>>

\* checksums a client may name: two paks of the server and a foreign one
ClientPaks == {3, 4, 6}

ChkLists ==
    {<<>>} \cup {<<a>> : a \in ClientPaks} \cup {<<a, b>> : a, b \in ClientPaks}

CpArgs ==
    {CpArgv(2, Tok(1), Tok(2), AtTok, c, f) : c \in ChkLists, f \in 0 .. 7}
    \cup {CpArgv(sid, cg, ui, at, <<3>>, 7) :
              sid \in {1, 2}, cg \in {Tok(1), Tok(0), AtTok},
              ui \in {Tok(2), Tok(0)}, at \in {AtTok, Tok(0)}}
    \cup {<<Tok(0)>>, <<Tok(0), Tok(2)>>,
          <<Tok(0), Tok(2), Tok(1), Tok(2), AtTok>>}

CpMsgs(n) ==
    {Msg(0, 0, 0, <<>>, "clc_EOF", NoMove)}
    \cup (IF n < MaxSeq
          THEN {Msg(2, 0, 0, <<[seq |-> n + 1, c |-> [name |-> "cp", argv |-> a]]>>,
                    "clc_EOF", NoMove) : a \in CpArgs}
          ELSE {})

Cp ==
    [cfgs |-> {Upd(Quick, [sv_pure |-> 1]),
               Upd(Quick, [sv_pure |-> 1, cgameInPak |-> FALSE, cgameChk |-> 0])},
     adrs |-> {A1},
     nonces |-> {1},
     limited |-> {FALSE},
     infos |-> {ConnectInfo(1, 1)},
     msgs |-> [n \in 0 .. MaxSeq |-> CpMsgs(n)],
     tickMs |-> 1000,
     ticks |-> MaxTicks,
     bots |-> {{}}]

NextCp ==
    \/ GetChallenge(Cp)
    \/ DirectConnect(Cp)
    \/ PacketEvent(Cp)

SpecCp == Init(Cp) /\ [][NextCp]_vars

RECURSIVE XorSeq(_)
\* q[1] XOR ... XOR q[Len(q)]
XorSeq(q) == IF q = <<>> THEN 0 ELSE XorN(Head(q), XorSeq(Tail(q)))

\* chk_1 .. chk_n of a cp command of at least 6 arguments
Chks(argv) == [k \in 1 .. (Len(argv) - 6) |-> argv[5 + k].n]

\* the seven acceptance rules
SevenRules(cf, argv) ==
    /\ Len(argv) >= 6
    /\ argv[2].n >= cf.checksumFeedServerId
    /\ argv[3] = Tok(cf.cgameChk) /\ argv[4] = Tok(cf.uiChk)
    /\ argv[5].at
    /\ Cardinality({Chks(argv)[k] : k \in 1 .. Len(Chks(argv))}) = Len(Chks(argv))
    /\ \A k \in 1 .. Len(Chks(argv)) : Chks(argv)[k] \in cf.pakChecksums
    /\ argv[Len(argv)].n
         = XorN(XorN(cf.checksumFeed, XorSeq(Chks(argv))), Len(Chks(argv)))

\* b is a with one chk_i changed
ChkChanged(a, b) ==
    /\ Len(a) = Len(b) /\ Len(a) >= 7
    /\ \E p \in 6 .. (Len(a) - 1) :
          /\ a[p] # b[p]
          /\ \A k \in 1 .. Len(a) : k # p => a[k] = b[k]

\* b is a with the chk_i at p left out, so with n changed by one
ChkRemoved(a, b, p) ==
    /\ Len(a) >= 7 /\ Len(b) = Len(a) - 1
    /\ p \in 6 .. (Len(a) - 1)
    /\ \A k \in 1 .. Len(b) : b[k] = IF k < p THEN a[k] ELSE a[k + 1]

\* b is a with n changed by one: a chk_i taken out or put in
CountChanged(a, b) ==
    \E p \in 6 .. 8 : ChkRemoved(a, b, p) \/ ChkRemoved(b, a, p)

\* C11 as stated: a cp sets pureAuthentic = 1 exactly when the seven rules
\* hold, and an accepted cp with one chk_i or n changed is rejected
CpSevenRules ==
    \A e \in 1 .. Len(ev.cps) :
        /\ ev.cps[e].how = "good" <=> SevenRules(cfg, ev.cps[e].argv)
        /\ \A a \in CpArgs :
              (SevenRules(cfg, a)
                 /\ (ChkChanged(a, ev.cps[e].argv)
                       \/ CountChanged(a, ev.cps[e].argv)))
              => ev.cps[e].how # "good"

ServerModulesInPak == cfg.cgameInPak /\ cfg.uiInPak

\* C11 amended: on a server whose cgame and ui modules are in a pak, a cp
\* sets pureAuthentic = 1 exactly when the seven rules hold (on another
\* server never); an accepted cp with one chk_i changed is rejected, and so
\* is one with a chk_i taken out or put in, unless that checksum equals
\* n XOR n' of the two counts.
CpAcceptance ==
    \A e \in 1 .. Len(ev.cps) :
        /\ ev.cps[e].how = "good"
             <=> (ServerModulesInPak /\ SevenRules(cfg, ev.cps[e].argv))
        /\ \A a \in CpArgs :
              (ServerModulesInPak /\ SevenRules(cfg, a)) =>
                 /\ ChkChanged(a, ev.cps[e].argv) => ev.cps[e].how # "good"
                 /\ \A p \in 6 .. 8 :
                       /\ (ChkRemoved(a, ev.cps[e].argv, p)
                             /\ a[p].n # XorN(Len(Chks(a)), Len(Chks(a)) - 1))
                          => ev.cps[e].how # "good"
                       /\ (ChkRemoved(ev.cps[e].argv, a, p)
                             /\ ev.cps[e].argv[p].n
                                  # XorN(Len(Chks(a)), Len(Chks(a)) + 1))
                          => ev.cps[e].how # "good"

\* C11 witness: the server rejected a cp that is an acceptable cp of two
\* checksums with one of them changed
CpOneChanged ==
    /\ ev.op = "message" /\ Len(ev.cps) = 1 /\ ev.cps[1].how = "bad"
    /\ ServerModulesInPak
    /\ \E a \in CpArgs :
          /\ Len(a) = 8 /\ SevenRules(cfg, a)
          /\ ChkChanged(a, ev.cps[1].argv)

\* C12: in pure mode a cp that fails a rule other than the epoch rule sets
\* gotCP, clears pureAuthentic, sends exactly one snapshot and drops the
\* client with "Unpure client detected", the slot ending ZOMBIE; a cp whose
\* serverId is below checksumFeedServerId leaves gotCP, pureAuthentic and
\* the state as they were and drops nobody.
CpRejection ==
    [][(ev'.op = "message" /\ Len(ev'.cps) = 1 /\ cfg.sv_pure # 0) =>
        LET i == ev'.slot
            argv == ev'.cps[1].argv
            epochOK == Cmd_Argv(argv, 1).n >= cfg.checksumFeedServerId
        IN  /\ (epochOK /\ ~SevenRules(cfg, argv)) =>
                  /\ clients'[i].gotCP
                  /\ clients'[i].pureAuthentic = 0
                  /\ ev'.snapshots = 1
                  /\ ev'.drops = <<[slot |-> i,
                                    reason |-> "Unpure client detected"]>>
                  /\ clients'[i].state = CS_ZOMBIE
            /\ ~epochOK =>
                  /\ clients'[i].gotCP = clients[i].gotCP
                  /\ clients'[i].pureAuthentic = clients[i].pureAuthentic
                  /\ clients'[i].state = clients[i].state
                  /\ ev'.drops = <<>>
                  /\ ev'.snapshots = 0
      ]_vars

\* C12 witness: a cp naming a pak the server does not have was answered
\* with one snapshot and the drop of its sender
CpRejected ==
    /\ ev.op = "message" /\ Len(ev.cps) = 1 /\ ev.cps[1].how = "bad"
    /\ Cmd_Argv(ev.cps[1].argv, 1).n >= cfg.checksumFeedServerId
    /\ ~SevenRules(cfg, ev.cps[1].argv)
    /\ ev.snapshots = 1 /\ Len(ev.drops) = 1
    /\ clients[ev.slot].state = CS_ZOMBIE /\ clients[ev.slot].gotCP

(***************************************************************************)
(* SpecCool: reconnects.  Peers of one remote host, told apart by source   *)
(* port and by qport, connect and connect again while svs.time advances by *)
(* a second; sv_reconnectlimit is 1 s.                                     *)
(***************************************************************************)
Cool ==
    [cfgs |-> {Upd(BaseCfg, [sv_zombietime |-> 0])},
     adrs |-> {A1, A2},
     nonces |-> {1},
     limited |-> {FALSE},
     infos |-> {ConnectInfo(1, q) : q \in {1, 2}}
                 \cup {Upd(ConnectInfo(1, 1), [protocol |-> 67])},
     msgs |-> NoMsgs,
     tickMs |-> 1000,
     ticks |-> MaxTicks,
     bots |-> {{}}]

NextCool ==
    \/ GetChallenge(Cool)
    \/ DirectConnect(Cool)
    \/ Tick(Cool)

SpecCool == Init(Cool) /\ [][NextCool]_vars

(***************************************************************************)
(* SpecDrop: reconnects after a drop.  The peers of one source port are    *)
(* dropped and connect again; a ZOMBIE does not linger.                    *)
(***************************************************************************)
Dropped == Upd(Cool, [adrs |-> {A1}])

NextDrop ==
    \/ GetChallenge(Dropped)
    \/ DirectConnect(Dropped)
    \/ Drop
    \/ CheckTimeouts
    \/ Tick(Dropped)

SpecDrop == Init(Dropped) /\ [][NextDrop]_vars

\* slot i is in use and has the base address of peer p and its qport or its
\* source port
Matches(i, p) ==
    /\ clients[i].state # CS_FREE
    /\ NET_CompareBaseAdr(p.adr, clients[i].adr)
    /\ (clients[i].qport = p.qport \/ p.adr.port = clients[i].adr.port)

\* less than sv_reconnectlimit seconds have passed since slot i connected
Cooling(i) == time - clients[i].lastConnectTime < cfg.sv_reconnectlimit * 1000

\* the handler sent nothing and changed no slot and no challenge record
Silent == ev'.oob = <<>> /\ clients' = clients /\ challenges' = challenges

\* the server holds the challenge peer p presents
ValidChallenge(p) ==
    \E k \in ChIdx : /\ NET_CompareAdr(p.adr, challenges[k].adr)
                     /\ challenges[k].challenge = p.challenge
                     /\ ~challenges[k].wasrefused

\* C13 as stated: a connect of a peer matching a slot in use that is within
\* its cooldown is dropped without reply or change; outside the cooldown and
\* with a valid challenge it is accepted into that slot and no other
ReconnectAnyMatch ==
    [][ev'.op = "connect" =>
          /\ (\E i \in Slots : Matches(i, ev'.peer) /\ Cooling(i)) => Silent
          /\ (/\ \E i \in Slots : Matches(i, ev'.peer)
              /\ \A i \in Slots : Matches(i, ev'.peer) => ~Cooling(i)
              /\ ValidChallenge(ev'.peer))
             => /\ ev'.result = "accepted"
                /\ Matches(ev'.slot, ev'.peer)
                /\ \A j \in Slots \ {ev'.slot} : clients'[j] = clients[j]
      ]_vars

\* C13 amended: a connect that passed the ban and protocol checks, from a
\* peer matching slots in use, is judged by the lowest of these slots: within
\* its cooldown the connect is dropped without reply or change; outside it
\* and with a valid challenge the connect is accepted into that slot, or
\* refused for its userinfo length, the per-address limit, a ping limit or
\* by the game module, and no other slot changes
ReconnectFirstMatch ==
    [][(/\ ev'.op = "connect"
        /\ ev'.result \notin {"banned", "protocol"}
        /\ \E i \in Slots : Matches(i, ev'.peer)) =>
          LET m == Least({i \in Slots : Matches(i, ev'.peer)})
          IN  /\ Cooling(m) => (ev'.result = "toosoon" /\ Silent)
              /\ (~Cooling(m) /\ ValidChallenge(ev'.peer)) =>
                    /\ ev'.result \in {"accepted", "denied", "overflow",
                                       "perip", "ping"}
                    /\ \A j \in Slots \ {m} : clients'[j] = clients[j]
                    /\ ev'.result = "accepted" =>
                          /\ ev'.slot = m
                          /\ clients'[m].state = CS_CONNECTED
                          /\ clients'[m].adr = ev'.peer.adr
                          /\ clients'[m].qport = ev'.peer.qport
      ]_vars

\* C13 witness: a reconnect was accepted into the lowest matching slot while
\* another slot matching the same peer was within its cooldown
ReconnectPastCoolingSlot ==
    /\ ev.op = "connect" /\ ev.result = "accepted" /\ ev.reuse
    /\ \E j \in Slots :
          /\ j > ev.slot
          /\ Matches(j, ev.peer)
          /\ time - clients[j].lastConnectTime < cfg.sv_reconnectlimit * 1000

\* slot i holds peer p as it was when it was dropped
DroppedPeer(i, p) ==
    /\ hist.dropAt[i] # NoTime
    /\ clients[i].adr = p.adr /\ clients[i].qport = p.qport

\* C14 as stated: a connect of a peer dropped at time T that arrives before
\* T + sv_reconnectlimit seconds is dropped without reply or slot change
CooldownFromDrop ==
    [][(/\ ev'.op = "connect"
        /\ \E i \in Slots :
              /\ clients[i].state \in {CS_ZOMBIE, CS_FREE}
              /\ DroppedPeer(i, ev'.peer)
              /\ time < hist.dropAt[i] + cfg.sv_reconnectlimit * 1000)
        => Silent
      ]_vars

\* C14 amended: a connect that passed the ban and protocol checks, of a
\* dropped peer whose slot still holds it as a ZOMBIE and is the lowest slot
\* matching it, is rejected as too soon, without reply or change, exactly
\* when it arrives before C + sv_reconnectlimit seconds, C being the time the
\* connection now dropped was accepted
CooldownFromConnect ==
    [][(/\ ev'.op = "connect"
        /\ ev'.result \notin {"banned", "protocol"}
        /\ \E i \in Slots : Matches(i, ev'.peer)) =>
          LET m == Least({i \in Slots : Matches(i, ev'.peer)})
          IN  (clients[m].state = CS_ZOMBIE /\ DroppedPeer(m, ev'.peer)) =>
                 /\ ev'.result = "toosoon"
                      <=> time < hist.connectAt[m]
                                    + cfg.sv_reconnectlimit * 1000
                 /\ ev'.result = "toosoon" => Silent
      ]_vars

\* C14 witness: a peer dropped less than sv_reconnectlimit seconds ago was
\* accepted back into its slot
ReconnectedSoonAfterDrop ==
    /\ ev.op = "connect" /\ ev.result = "accepted" /\ ev.reuse
    /\ hist.dropAt[ev.slot] # NoTime
    /\ time < hist.dropAt[ev.slot] + cfg.sv_reconnectlimit * 1000
    /\ hist.connectAt[ev.slot] = time

(***************************************************************************)
(* SpecFlood: the commands of one peer under sv_floodProtect.  The peer    *)
(* is sent the gamestate, enters the world with a usercmd and then sends   *)
(* messages of one to three new commands, of the game module and of the    *)
(* server; svs.time advances by a second.                                  *)
(***************************************************************************)
FloodNames == {"other", "vdr", "disconnect"}

FloodCmds(n) ==
    LET lists == {<<Cmd(n + 1, a)>> : a \in FloodNames}
                   \cup {<<Cmd(n + 1, a), Cmd(n + 2, b)>> : a, b \in FloodNames}
                   \cup {<<Cmd(n + 1, a), Cmd(n + 2, b), Cmd(n + 3, c)>> :
                             a, b, c \in FloodNames}
    IN  {c \in lists : \A k \in 1 .. Len(c) : c[k].seq \in 0 .. MaxSeq}

FloodMsgs(n) ==
    {Msg(0, 0, 0, <<>>, "clc_EOF", NoMove),
     Msg(2, 0, 0, <<>>, "clc_move", Move(<<1>>))}
    \cup {Msg(2, 0, 0, c, "clc_EOF", NoMove) : c \in FloodCmds(n)}

Flood ==
    [cfgs |-> {Quick},
     adrs |-> {A1},
     nonces |-> {1},
     limited |-> {FALSE},
     infos |-> {ConnectInfo(1, 1)},
     msgs |-> [n \in 0 .. MaxSeq |-> FloodMsgs(n)],
     tickMs |-> 1000,
     ticks |-> MaxTicks,
     bots |-> {{}}]

NextFlood ==
    \/ GetChallenge(Flood)
    \/ DirectConnect(Flood)
    \/ PacketEvent(Flood)
    \/ Tick(Flood)

SpecFlood == Init(Flood) /\ [][NextFlood]_vars

\* how many times the game module's command hook ran in the last handler
CommandHooks ==
    Cardinality({k \in 1 .. Len(ev.hooks) : ev.hooks[k].name = "client_command"})

ReplayMsgs(n) ==
    {Msg(0, 0, 0, <<>>, "clc_EOF", NoMove),
     Msg(2, 0, 0, <<>>, "clc_move", Move(<<1>>))}
    \cup {Msg(1, m, r, <<Cmd(n + 1, "other")>>, "clc_move", Move(<<2>>)) :
              m \in {0 - 1, 0, 1}, r \in 0 .. MaxSeq}

Replay ==
    [cfgs |-> {Quick, Upd(Quick, [ndebug |-> FALSE])},
     adrs |-> {A1},
     nonces |-> {1},
     limited |-> {FALSE},
     infos |-> {ConnectInfo(1, 1)},
     msgs |-> [n \in 0 .. MaxSeq |-> ReplayMsgs(n)],
     tickMs |-> 1000,
     ticks |-> MaxTicks,
     bots |-> {{}}]

NextReplay ==
    \/ GetChallenge(Replay)
    \/ DirectConnect(Replay)
    \/ PacketEvent(Replay)
    \/ ServerCommand

SpecReplay == Init(Replay) /\ [][NextReplay]_vars

\* a message of header h carries a serverId of [restartedServerId, serverId)
BeforeRestart(h) ==
    /\ h.serverId # cfg.serverId
    /\ h.serverId \in cfg.restartedServerId .. (cfg.serverId - 1)

\* the last handler executed nothing of a message and called nothing
NothingRun ==
    /\ ev.exec = <<>> /\ ev.thinks = <<>> /\ ev.hooks = <<>>
    /\ ev.gamestates = 0

\* state, command and usercmd progress and flood counters of slot i are kept
ProgressKept(i) ==
    /\ clients'[i].state = clients[i].state
    /\ clients'[i].lastClientCommand = clients[i].lastClientCommand
    /\ clients'[i].lastUsercmd = clients[i].lastUsercmd
    /\ clients'[i].numcmds = clients[i].numcmds
    /\ clients'[i].nextReliableTime = clients[i].nextReliableTime

\* C16 as stated: a message of a serverId in [restartedServerId, serverId)
\* has nothing of it executed, calls no hook, sends no gamestate and leaves
\* state, lastClientCommand, lastUsercmd, reliableAcknowledge and the flood
\* counters as they were
ReplayChangesNothing ==
    [][(ev'.op = "message" /\ BeforeRestart(ev'.hdr)) =>
          /\ NothingRun'
          /\ ProgressKept(ev'.slot)
          /\ clients'[ev'.slot].reliableAcknowledge
               = clients[ev'.slot].reliableAcknowledge
      ]_vars

\* C16 amended: such a message has its header read and nothing more.
\* messageAcknowledge is the message's, and so is reliableAcknowledge unless
\* messageAcknowledge is negative (reliableAcknowledge is kept) or the value
\* is below reliableSequence - MAX_RELIABLE_COMMANDS (it is set to
\* reliableSequence).  Nothing of the message is executed, no hook is
\* called, no gamestate is sent and state, lastClientCommand, lastUsercmd
\* and the flood counters are kept, except that a debug build drops the
\* sender of such a negative or low acknowledgement.
ReplayReadsHeaderOnly ==
    [][(ev'.op = "message" /\ BeforeRestart(ev'.hdr)) =>
          LET i == ev'.slot
              h == ev'.hdr
              low == h.reliableAcknowledge
                       < clients[i].reliableSequence - MAX_RELIABLE_COMMANDS
          IN  /\ clients'[i].messageAcknowledge = h.messageAcknowledge
              /\ clients'[i].reliableAcknowledge =
                   IF h.messageAcknowledge < 0
                   THEN clients[i].reliableAcknowledge
                   ELSE IF low THEN clients'[i].reliableSequence
                   ELSE h.reliableAcknowledge
              /\ ev'.exec = <<>> /\ ev'.thinks = <<>> /\ ev'.gamestates = 0
              /\ clients'[i].lastClientCommand = clients[i].lastClientCommand
              /\ clients'[i].lastUsercmd = clients[i].lastUsercmd
              /\ clients'[i].numcmds = clients[i].numcmds
              /\ clients'[i].nextReliableTime = clients[i].nextReliableTime
              /\ IF (h.messageAcknowledge < 0 \/ low) /\ ~cfg.ndebug
                 THEN /\ clients'[i].state = CS_ZOMBIE
                      /\ Len(ev'.drops) = 1
                 ELSE /\ clients'[i].state = clients[i].state
                      /\ ev'.hooks = <<>> /\ ev'.drops = <<>>
      ]_vars

\* C16 witness: an ACTIVE client's message from before the map_restart, with
\* a new command and a usercmd, moved its reliableAcknowledge and nothing
\* else
ReplayMovedAck ==
    /\ ev.op = "message" /\ ev.result = "pre map_restart"
    /\ BeforeRestart(ev.hdr)
    /\ ev.hdr.cmds > 0 /\ ev.hdr.moves > 0
    /\ NothingRun
    /\ clients[ev.slot].state = CS_ACTIVE
    /\ clients[ev.slot].reliableSequence = 2
    /\ clients[ev.slot].reliableAcknowledge = 1
    /\ ev.hdr.reliableAcknowledge = 1

(***************************************************************************)
(* SpecGate: getchallenge under the rate limiters.  The answer of the      *)
(* limiters (SVC_RateLimitAddress, SVC_RateLimit) is an input.             *)
(***************************************************************************)
Gate ==
    [cfgs |-> {Quick},
     adrs |-> {A1, A2},
     nonces |-> 0 .. MaxNonce,
     limited |-> BOOLEAN,
     infos |-> {ConnectInfo(c, 1) : c \in 0 .. MaxNonce},
     msgs |-> NoMsgs,
     tickMs |-> 1000,
     ticks |-> MaxTicks,
     bots |-> {{}}]

NextGate ==
    \/ GetChallenge(Gate)
    \/ DirectConnect(Gate)
    \/ Drop

SpecGate == Init(Gate) /\ [][NextGate]_vars

\* C17: a getchallenge a rate limiter refuses is answered by nothing,
\* neither challengeResponse nor the game-mismatch print, and leaves every
\* challenge record as it was; so the limiters come before the game-name
\* check.
LimitedGetsNothing ==
    [][(ev'.op = "getchallenge" /\ ev'.ask.limited) =>
          /\ ev'.oob = <<>>
          /\ challenges' = challenges
      ]_vars

\* C17 witness: a refused getchallenge of a wrong game name got no reply
\* while the server held a challenge of an earlier request
LimitedMismatchSilent ==
    /\ ev.op = "getchallenge" /\ ev.ask.limited /\ ~ev.ask.gameOK
    /\ ev.oob = <<>>
    /\ \E k \in ChIdx : challenges[k].adr # NoAdr

(***************************************************************************)
(* SpecInfo: SV_UserinfoChanged over the userinfo strings of one peer, at  *)
(* connect and in "userinfo" commands: rate and snaps missing, below, in   *)
(* and above their ranges.  The peer is on the server's subnet: its rate   *)
(* is forced on the server that is not public (sv_fps 3) and taken from    *)
(* the userinfo on the public one (sv_fps 20).                             *)
(***************************************************************************)
ALan == Adr(NA_IP, "L", 1)

\* rate and snaps of a userinfo: their atoi and their strlen
RateSnaps ==
    {<<NoVal, NoVal>>, <<Val(0 - 5, 2), Val(0, 1)>>, <<Val(999, 3), Val(3, 1)>>,
     <<Val(25000, 5), Val(20, 2)>>, <<Val(100001, 6), Val(40, 2)>>,
     <<NoVal, Val(2, 1)>>}

UserInfos ==
    {Upd(ConnectInfo(1, 1), [rate |-> p[1], snaps |-> p[2]]) : p \in RateSnaps}

InfoMsgs(n) ==
    {Msg(0, 0, 0, <<>>, "clc_EOF", NoMove)}
    \cup (IF n < MaxSeq
          THEN {Msg(2, 0, 0,
                    <<[seq |-> n + 1, c |-> [name |-> "userinfo", info |-> u]]>>,
                    "clc_EOF", NoMove) : u \in UserInfos}
          ELSE {})

Info ==
    [cfgs |-> {Upd(Quick, [sv_fps |-> 3, com_dedicated |-> 1]), Quick},
     adrs |-> {ALan},
     nonces |-> {1},
     limited |-> {FALSE},
     infos |-> {ConnectInfo(1, 1),
                Upd(ConnectInfo(1, 1), [rate |-> Val(25000, 5),
                                        snaps |-> Val(40, 2)])},
     msgs |-> [n \in 0 .. MaxSeq |-> InfoMsgs(n)],
     tickMs |-> 1000,
     ticks |-> MaxTicks,
     bots |-> {{}}]

NextInfo ==
    \/ GetChallenge(Info)
    \/ DirectConnect(Info)
    \/ PacketEvent(Info)
    \/ SendClientMessages
    \/ Tick(Info)

SpecInfo == Init(Info) /\ [][NextInfo]_vars

\* the rate of client cl is forced: it is on the server's subnet, the
\* server is not a public one and sv_lanForceRate is set
ForcedLan(cl) ==
    /\ Sys_IsLANAddress(cl.adr)
    /\ cfg.com_dedicated # 2 /\ cfg.sv_lanForceRate = 1

\* C18: once SV_UserinfoChanged has run on a userinfo u, rate is within
\* 1000 .. 100000, 100000 for a forced LAN client and otherwise 5000 when u
\* has no rate; snapshotMsec is 1000 \div s for the effective snaps s, which
\* is within 1 .. sv_fps: the snaps of u when that is in range, sv_fps when
\* u has none; lastSnapshotTime is 0 if snapshotMsec changed and kept if not.
UserinfoClamp ==
    [][(ev'.op \in {"message", "connect"} /\ Len(ev'.infos) = 1
        /\ cfg.sv_fps >= 1) =>
          LET i == ev'.slot
              u == ev'.infos[1]
              new == clients'[i]
          IN  /\ new.rate \in 1000 .. 100000
              /\ ForcedLan(new) => new.rate = 100000
              /\ (~ForcedLan(new) /\ u.rate.len = 0) => new.rate = 5000
              /\ \E s \in 1 .. cfg.sv_fps :
                    /\ new.snapshotMsec = 1000 \div s
                    /\ u.snaps.len = 0 => s = cfg.sv_fps
                    /\ (u.snaps.len > 0 /\ u.snaps.n \in 1 .. cfg.sv_fps)
                          => s = u.snaps.n
              /\ ev'.op = "message" =>
                    new.lastSnapshotTime =
                        IF new.snapshotMsec # clients[i].snapshotMsec
                        THEN 0 ELSE clients[i].lastSnapshotTime
      ]_vars

\* C18 witness: a "userinfo" command with snaps above sv_fps and a rate
\* above the range left snapshotMsec as it was, and lastSnapshotTime with it
UserinfoKeptSnapshotTime ==
    /\ ev.op = "message" /\ Len(ev.infos) = 1
    /\ ev.infos[1].snaps.n > cfg.sv_fps /\ ev.infos[1].rate.n > 100000
    /\ clients[ev.slot].rate = 100000
    /\ clients[ev.slot].snapshotMsec = 1000 \div cfg.sv_fps
    /\ clients[ev.slot].lastSnapshotTime > 0

(***************************************************************************)
(* SpecStates: the life of a slot on a pure server.  A peer connects and   *)
(* reconnects, is sent the gamestate, sends a cp the server accepts or     *)
(* rejects, donedl, disconnect and usercmds; clients and a bot are         *)
(* dropped and ZOMBIEs time out.                                           *)
(***************************************************************************)
StatesMsgs(n) ==
    {Msg(0, 0, 0, <<>>, "clc_EOF", NoMove),
     Msg(2, 0, 0, <<>>, "clc_move", Move(<<1>>))}
    \cup (IF n < MaxSeq
          THEN {Msg(2, 0, 0, <<[seq |-> n + 1, c |-> c]>>, "clc_EOF", NoMove) :
                    c \in {CpGood, CpBad, [name |-> "donedl"],
                           [name |-> "disconnect"]}}
          ELSE {})

States ==
    [cfgs |-> {Upd(Quick, [sv_pure |-> 1])},
     adrs |-> {A1},
     nonces |-> {1},
     limited |-> {FALSE},
     infos |-> {ConnectInfo(1, 1)},
     msgs |-> [n \in 0 .. MaxSeq |-> StatesMsgs(n)],
     tickMs |-> 1000,
     ticks |-> MaxTicks,
     bots |-> {{}, {MaxClients - 1}}]

NextStates ==
    \/ GetChallenge(States)
    \/ DirectConnect(States)
    \/ PacketEvent(States)
    \/ Drop
    \/ CheckTimeouts
    \/ Tick(States)

SpecStates == Init(States) /\ [][NextStates]_vars

InUse == {CS_CONNECTED, CS_PRIMED, CS_ACTIVE}

\* the transitions of the life cycle; slot i held a bot or a peer
Permitted(i, from, to) ==
    \/ from = CS_FREE /\ to = CS_CONNECTED
    \/ from = CS_CONNECTED /\ to = CS_PRIMED
    \/ from = CS_PRIMED /\ to = CS_ACTIVE
    \/ from = CS_ACTIVE /\ to = CS_PRIMED
    \/ from \in InUse /\ to = CS_ZOMBIE /\ clients[i].adr.type # NA_BOT
    \/ from \in InUse /\ to = CS_FREE /\ clients[i].adr.type = NA_BOT
    \/ from = CS_ZOMBIE /\ to = CS_FREE

\* C19 as stated: every change of a slot's state is a transition of the life
\* cycle
StateChangesAsListed ==
    [][\A k \in 1 .. Len(ev'.trans) :
          ev'.trans[k][2] # ev'.trans[k][3] =>
              Permitted(ev'.trans[k][1], ev'.trans[k][2], ev'.trans[k][3])
      ]_vars

\* C19 amended: every change of a slot's state made by the handshake, a
\* client message, a drop or the ZOMBIE timeout is a transition of the life
\* cycle, or the clearing to FREE of the slot a connect reuses for its peer,
\* or the setting to ACTIVE of a CONNECTED or PRIMED slot by a rejected cp,
\* which the drop to ZOMBIE follows at once.
StateChangesPermitted ==
    [][\A k \in 1 .. Len(ev'.trans) :
          LET i == ev'.trans[k][1]
              from == ev'.trans[k][2]
              to == ev'.trans[k][3]
          IN  from # to =>
                \/ Permitted(i, from, to)
                \/ /\ ev'.op = "connect" /\ ev'.reuse /\ ev'.slot = i
                   /\ from \in InUse /\ to = CS_FREE
                   /\ k = 1
                \/ /\ ev'.op = "message" /\ ev'.slot = i
                   /\ Len(ev'.cps) = 1 /\ ev'.cps[1].how = "bad"
                   /\ from \in {CS_CONNECTED, CS_PRIMED} /\ to = CS_ACTIVE
                   /\ k < Len(ev'.trans)
                   /\ ev'.trans[k + 1] = <<i, CS_ACTIVE, CS_ZOMBIE>>
      ]_vars

\* C19 witness: a cp the server rejected took a CONNECTED slot to ACTIVE and
\* from there to ZOMBIE
ConnectedWentActive ==
    /\ ev.op = "message" /\ Len(ev.cps) = 1 /\ ev.cps[1].how = "bad"
    /\ ev.trans = <<<<ev.slot, CS_CONNECTED, CS_ACTIVE>>,
                    <<ev.slot, CS_ACTIVE, CS_ZOMBIE>>>>
    /\ clients[ev.slot].state = CS_ZOMBIE

\* C20: on a pure server a batch of usercmds (clc_move or clc_moveNoDelta,
\* 1 .. MAX_PACKET_USERCMDS of them, in a message of the current serverId
\* with no command before it) of a client whose gotCP is false has none of
\* its usercmds executed and calls neither client_begin nor client_think; an
\* ACTIVE client is sent the gamestate again and becomes PRIMED, another
\* keeps its state.
NoCpNoMove ==
    [][(/\ ev'.op = "message"
        /\ cfg.sv_pure # 0 /\ ~clients[ev'.slot].gotCP
        /\ ev'.hdr.serverId = cfg.serverId
        /\ ev'.hdr.messageAcknowledge >= 0
        /\ ev'.hdr.reliableAcknowledge
             >= clients[ev'.slot].reliableSequence - MAX_RELIABLE_COMMANDS
        /\ ev'.hdr.cmds = 0
        /\ ev'.hdr.tail \in {"clc_move", "clc_moveNoDelta"}
        /\ ev'.hdr.moves \in 1 .. MAX_PACKET_USERCMDS) =>
          LET i == ev'.slot
          IN  /\ ev'.thinks = <<>>
              /\ \A k \in 1 .. Len(ev'.hooks) :
                    ev'.hooks[k].name \notin {"client_begin", "client_think"}
              /\ IF clients[i].state = CS_ACTIVE
                 THEN ev'.gamestates = 1 /\ clients'[i].state = CS_PRIMED
                 ELSE ev'.gamestates = 0
                      /\ clients'[i].state = clients[i].state
      ]_vars

\* C20 witness: the usercmds of an ACTIVE client that had withdrawn its cp
\* were answered with the gamestate and the client is PRIMED
NoCpSentGamestate ==
    /\ ev.op = "message" /\ ev.hdr.cmds = 0 /\ ev.hdr.moves > 0
    /\ cfg.sv_pure # 0
    /\ ev.trans = <<<<ev.slot, CS_ACTIVE, CS_PRIMED>>>>
    /\ ev.gamestates = 1 /\ ev.thinks = <<>>
    /\ ~clients[ev.slot].gotCP

(***************************************************************************)
(* SpecEmit: the gamestate.  One peer of a pure server sends messages of   *)
(* another serverId (of an earlier map and of before the map_restart) with *)
(* every messageAcknowledge, one with a reliableAcknowledge below the      *)
(* window, a cp, a vdr, a donedl and usercmds; the server queues commands  *)
(* for it.                                                                 *)
(***************************************************************************)
EmitMsgs(n) ==
    {Msg(s, m, 0, <<>>, "clc_EOF", NoMove) : s \in {0, 1}, m \in (0 - 1) .. MaxOut}
    \cup {Msg(0, 0, 0 - (MAX_RELIABLE_COMMANDS + 1), <<>>, "clc_EOF", NoMove),
          Msg(2, 0, 0, <<>>, "clc_move", Move(<<1>>))}
    \cup (IF n < MaxSeq
          THEN {Msg(2, 0, 0, <<[seq |-> n + 1, c |-> c]>>, "clc_EOF", NoMove) :
                    c \in {CpGood, Vdr, [name |-> "donedl"]}}
          ELSE {})

Emit ==
    [cfgs |-> {Upd(Quick, [sv_pure |-> 1])},
     adrs |-> {A1},
     nonces |-> {1},
     limited |-> {FALSE},
     infos |-> {ConnectInfo(1, 1)},
     msgs |-> [n \in 0 .. MaxSeq |-> EmitMsgs(n)],
     tickMs |-> 1000,
     ticks |-> MaxTicks,
     bots |-> {{}}]

NextEmit ==
    \/ GetChallenge(Emit)
    \/ DirectConnect(Emit)
    \/ PacketEvent(Emit)
    \/ ServerCommand

SpecEmit == Init(Emit) /\ [][NextEmit]_vars

\* C21: every gamestate emission (for a CONNECTED client's first message, on
\* donedl of a client not ACTIVE, as the resend of a dropped gamestate, for
\* the usercmds of an ACTIVE client without cp) leaves the slot PRIMED with
\* pureAuthentic = 0, gotCP false and gamestateMessageNum equal to the
\* outgoing sequence number the gamestate was sent with, and leaves
\* lastClientCommand and reliableSequence as they were; where the handler
\* returns right after the emission the slot is left so.
GamestateEmission ==
    /\ \A k \in 1 .. Len(ev.emits) :
          LET b == ev.emits[k].before
              a == ev.emits[k].after
          IN  /\ a.state = CS_PRIMED
              /\ a.pureAuthentic = 0 /\ ~a.gotCP
              /\ a.gamestateMessageNum = b.outgoingSequence
              /\ a.outgoingSequence = b.outgoingSequence + 1
              /\ a.lastClientCommand = b.lastClientCommand
              /\ a.reliableSequence = b.reliableSequence
    /\ (ev.op = "message" /\ ev.result = "resend") =>
          /\ Len(ev.emits) = 1
          /\ clients[ev.slot] = ev.emits[1].after

\* C21 witness: the donedl of a PRIMED client whose cp had been accepted,
\* with commands received and queued, was answered with the gamestate
EmissionClearedPure ==
    /\ ev.op = "message" /\ Len(ev.emits) = 1
    /\ \E e \in 1 .. Len(ev.exec) : ev.exec[e].name = "donedl"
    /\ ev.emits[1].before.state = CS_PRIMED
    /\ ev.emits[1].before.pureAuthentic = 1 /\ ev.emits[1].before.gotCP
    /\ ev.emits[1].before.lastClientCommand > 0
    /\ ev.emits[1].before.reliableSequence > 0
    /\ clients[ev.slot].state = CS_PRIMED
    /\ clients[ev.slot].pureAuthentic = 0 /\ ~clients[ev.slot].gotCP

\* the reliableAcknowledge of header h is within the window of client cl
InWindow(h, cl) ==
    h.reliableAcknowledge >= cl.reliableSequence - MAX_RELIABLE_COMMANDS

\* a message of header h is of another gamestate and not of before the
\* map_restart
OtherGamestate(h) ==
    /\ h.messageAcknowledge >= 0
    /\ h.serverId # cfg.serverId /\ ~BeforeRestart(h)

\* C22 as stated: the first message of another gamestate to a slot just
\* connected (CONNECTED, gamestateMessageNum -1) is answered with the
\* gamestate and makes it PRIMED; a later one to a slot not ACTIVE is
\* answered with it only if messageAcknowledge > gamestateMessageNum; an
\* ACTIVE slot never is
FirstGamestateForced ==
    [][(ev'.op = "message" /\ OtherGamestate(ev'.hdr)) =>
          LET i == ev'.slot
              cl == clients[i]
          IN  /\ (cl.state = CS_CONNECTED /\ cl.gamestateMessageNum = 0 - 1) =>
                    (ev'.gamestates = 1 /\ clients'[i].state = CS_PRIMED)
              /\ (cl.state # CS_ACTIVE /\ ev'.gamestates > 0) =>
                    ev'.hdr.messageAcknowledge > cl.gamestateMessageNum
              /\ cl.state = CS_ACTIVE => ev'.gamestates = 0
      ]_vars

\* C22 amended: as stated, for messages whose reliableAcknowledge is not
\* below reliableSequence - MAX_RELIABLE_COMMANDS; a message below that is
\* answered with nothing.  So a slot not ACTIVE is sent the gamestate exactly
\* when the message is within the window and its messageAcknowledge is above
\* gamestateMessageNum.
ForcedGamestate ==
    [][(ev'.op = "message" /\ OtherGamestate(ev'.hdr)) =>
          LET i == ev'.slot
              cl == clients[i]
              h == ev'.hdr
          IN  /\ (cl.state = CS_CONNECTED /\ cl.gamestateMessageNum = 0 - 1
                    /\ InWindow(h, cl)) =>
                    (ev'.gamestates = 1 /\ clients'[i].state = CS_PRIMED)
              /\ cl.state # CS_ACTIVE =>
                    /\ ev'.gamestates \in {0, 1}
                    /\ ev'.gamestates = 1 <=>
                          (InWindow(h, cl)
                             /\ h.messageAcknowledge > cl.gamestateMessageNum)
                    /\ ev'.gamestates = 0 => clients'[i].state = cl.state
              /\ cl.state = CS_ACTIVE =>
                    (ev'.gamestates = 0 /\ clients'[i].state = CS_ACTIVE)
      ]_vars

\* C22 witness: a PRIMED client's message of another gamestate that
\* acknowledged no more than the gamestate was not answered with it
GamestateNotResent ==
    /\ ev.op = "message" /\ ev.result = "other gamestate"
    /\ OtherGamestate(ev.hdr)
    /\ clients[ev.slot].state = CS_PRIMED
    /\ clients[ev.slot].gamestateMessageNum > 0
    /\ ev.hdr.messageAcknowledge = clients[ev.slot].gamestateMessageNum
    /\ ev.gamestates = 0

\* the states the game module's command hook ran in, in the last handler
CommandHookStates ==
    {ev.hooks[k].state : k \in {j \in 1 .. Len(ev.hooks) :
                                   ev.hooks[j].name = "client_command"}}

\* the commands of the last handler that may go to the game module: not
\* one of the server's own, clientOK, read by a PRIMED or ACTIVE client
Forwardable ==
    {k \in 1 .. Len(ev.exec) :
        /\ ev.exec[k].name \notin {"userinfo", "disconnect", "cp", "vdr",
                                   "donedl", "voip"}
        /\ ev.exec[k].ok
        /\ ev.exec[k].state \in {CS_PRIMED, CS_ACTIVE}}

\* C23: the game module's client_command hook runs only for a command that
\* is not one of the server's own (userinfo, disconnect, cp, vdr, donedl,
\* voip), has clientOK true and is read while the client is PRIMED or ACTIVE
\* (and on a running game, for every such command that is not a redirected
\* team or an overlong chat command); the server's own commands run in
\* every state and whatever clientOK is: a disconnect drops its sender.
CommandDispatchGating ==
    ev.op = "message" =>
        /\ CommandHookStates \subseteq {CS_PRIMED, CS_ACTIVE}
        /\ CommandHooks <= Cardinality(Forwardable)
        /\ (cfg.ss_game
              /\ \A k \in Forwardable :
                    ev.exec[k].name \notin ChatCmds \cup {"team"})
           => CommandHooks = Cardinality(Forwardable)
        /\ \A k \in 1 .. Len(ev.exec) :
              ev.exec[k].name = "disconnect" =>
                 /\ ev.drops = <<[slot |-> ev.slot, reason |-> "disconnected"]>>
                 /\ clients[ev.slot].state = CS_ZOMBIE

\* C23 witness: of three commands of an ACTIVE client the third, a disconnect
\* with clientOK false, was run, and one of the two before it went to the
\* game module
DisconnectRunWhenFlooding ==
    /\ ev.op = "message" /\ Len(ev.exec) = 3
    /\ ev.exec[3].name = "disconnect" /\ ~ev.exec[3].ok
    /\ ev.exec[3].state = CS_ACTIVE
    /\ ev.exec[1].name = "other" /\ ev.exec[2].name = "vdr"
    /\ CommandHooks = 1
    /\ clients[ev.slot].state = CS_ZOMBIE

\* the challenge records not yet used by a connect that hold address a
Unconsumed(a) ==
    {k \in ChIdx : ~challenges[k].connected /\ NET_CompareAdr(a, challenges[k].adr)}

\* C24 as stated: no address holds more than MAX_CHALLENGES_MULTI challenge
\* records that no connect has used, wherever in the table they are
ChallengeCapPerAddress ==
    \A k \in ChIdx :
        challenges[k].adr # NoAdr =>
            Cardinality(Unconsumed(challenges[k].adr)) <= MAX_CHALLENGES_MULTI

(***************************************************************************)
(* SpecRefuse: connects the server refuses.  Two peers of one remote host  *)
(* ask for challenges and connect, with the protocol of the server and     *)
(* with another, while svs.time advances by a second; one server is for    *)
(* pings of 1 ms and more and takes one client of an address, the other is *)
(* for pings of 500 ms and less.                                           *)
(***************************************************************************)
Refuse ==
    [cfgs |-> {Upd(Quick, [sv_minPing |-> 1, sv_clientsPerIp |-> 1]),
               Upd(Quick, [sv_maxPing |-> 500])},
     adrs |-> {A1, A2},
     nonces |-> {1},
     limited |-> {FALSE},
     infos |-> {ConnectInfo(1, 1), Upd(ConnectInfo(1, 1), [protocol |-> 67])},
     msgs |-> NoMsgs,
     tickMs |-> 1000,
     ticks |-> MaxTicks,
     bots |-> {{}}]

NextRefuse ==
    \/ GetChallenge(Refuse)
    \/ DirectConnect(Refuse)
    \/ Drop
    \/ Tick(Refuse)

SpecRefuse == Init(Refuse) /\ [][NextRefuse]_vars

\* the challenge records of the address of peer p that hold its nonce
Presented(p) ==
    {k \in ChIdx : /\ NET_CompareAdr(p.adr, challenges[k].adr)
                   /\ challenges[k].challenge = p.challenge}

\* C25 as stated: a connect of an address with the nonce of a record of that
\* address flagged refused gets no reply and changes no slot
StickyRefusal ==
    [][(/\ ev'.op = "connect"
        /\ \E k \in Presented(ev'.peer) : challenges[k].wasrefused)
        => (ev'.oob = <<>> /\ clients' = clients)
      ]_vars

\* C25 amended: a connect that passed the ban, protocol and userinfo-length
\* checks, with the nonce of a record of its address flagged refused that is
\* the first record of that address with that nonce, gets no reply and
\* changes no slot and no challenge record
StickyRefusalOfMatch ==
    [][(/\ ev'.op = "connect"
        /\ ev'.result \notin {"banned", "protocol", "overflow"}
        /\ Presented(ev'.peer) # {}
        /\ challenges[Least(Presented(ev'.peer))].wasrefused)
        => (ev'.result \in {"refused", "toosoon"} /\ Silent)
      ]_vars

\* C25 witness: a connect presenting a refused challenge at a time its ping
\* had been acceptable got no reply
RefusedAgainSilently ==
    /\ ev.op = "connect" /\ ev.result = "refused" /\ ev.oob = <<>>
    /\ cfg.sv_minPing > 0
    /\ \E k \in Presented(ev.peer) :
          /\ challenges[k].wasrefused
          /\ time - challenges[k].pingTime >= cfg.sv_minPing
    /\ \A i \in Slots : clients[i].state = CS_FREE

\* C26 as stated: a connect from an address off the server's subnet that is
\* rejected for the per-address limit or for a ping limit leaves the
\* challenge record it matched flagged refused, so the same connect sent
\* again is dropped without reply
RejectionMarksRefused ==
    [][(/\ ev'.op = "connect"
        /\ ev'.result \in {"perip", "ping"}
        /\ ~Sys_IsLANAddress(ev'.peer.adr))
        => /\ Presented(ev'.peer) # {}
           /\ challenges'[Least(Presented(ev'.peer))].wasrefused
      ]_vars

(***************************************************************************)
(* SpecPrivate: the private slots.  Slot 0 is kept for those who give the  *)
(* password "pw" (on a second server the private password is empty).       *)
(* Peers of two remote hosts and of the server's own machine connect with  *)
(* the password "pw" and with none; the last slot may hold a bot.          *)
(***************************************************************************)
Private ==
    [cfgs |-> {Upd(Quick, [sv_privateClients |-> 1, sv_privatePassword |-> "pw"]),
               Upd(Quick, [sv_privateClients |-> 1])},
     adrs |-> {A1, Adr(NA_IP, "B", 1), Adr(NA_LOOPBACK, "", 0)},
     nonces |-> {1},
     limited |-> {FALSE},
     infos |-> {Upd(ConnectInfo(1, 1), [password |-> w]) : w \in {"", "pw"}},
     msgs |-> NoMsgs,
     tickMs |-> 1000,
     ticks |-> MaxTicks,
     bots |-> {{}, {MaxClients - 1}}]

NextPrivate ==
    \/ GetChallenge(Private)
    \/ DirectConnect(Private)

SpecPrivate == Init(Private) /\ [][NextPrivate]_vars

\* the first slot a connect with password w may take
FirstSlotFor(w) ==
    IF w # "" /\ w = cfg.sv_privatePassword THEN 0 ELSE cfg.sv_privateClients

\* the FREE slots a connect with password w may take
FreeFor(w) ==
    {i \in Slots : i >= FirstSlotFor(w) /\ clients[i].state = CS_FREE}

\* C27: a connect that reuses no slot of its peer and reaches the choice of
\* a slot is put into the lowest FREE slot at or after startIndex, which is
\* 0 only for a non-empty password equal to sv_privatePassword and
\* sv_privateClients otherwise; so without the private password it takes no
\* slot below sv_privateClients, and from a remote address it is answered
\* "Server is full" when no slot from startIndex on is FREE, FREE private
\* slots or not.  (A connect from the server's own machine then takes the
\* last slot from a bot, if all slots from startIndex on hold bots.)
PrivateSlots ==
    [][(/\ ev'.op = "connect" /\ ~ev'.reuse
        /\ ev'.result \in {"accepted", "denied", "full", "fatal"}) =>
          LET w == ev'.peer.password
              free == FreeFor(w)
              n == ev'.slot
              last == MaxClients - 1
          IN  /\ ev'.result \in {"accepted", "denied"} =>
                    /\ n >= FirstSlotFor(w)
                    /\ (w = "" \/ w # cfg.sv_privatePassword) =>
                          n >= cfg.sv_privateClients
                    /\ IF free # {} THEN n = Least(free)
                       ELSE /\ NET_IsLocalAddress(ev'.peer.adr)
                            /\ n = last
                            /\ clients[last].adr.type = NA_BOT
                            /\ ev'.drops = <<[slot |-> last,
                                              reason |-> "only bots on server"]>>
                    /\ \A j \in Slots \ {n} :
                          /\ clients'[j].state = clients[j].state
                          /\ clients'[j].adr = clients[j].adr
                    /\ ev'.result = "accepted" =>
                          /\ clients'[n].state = CS_CONNECTED
                          /\ clients'[n].adr = ev'.peer.adr
              /\ (free = {} /\ ~NET_IsLocalAddress(ev'.peer.adr)) =>
                    /\ ev'.result = "full"
                    /\ ev'.oob = <<[to |-> ev'.peer.adr,
                                    text |-> "print Server is full"]>>
                    /\ clients' = clients
              /\ ev'.result \in {"full", "fatal"} => free = {}
      ]_vars

\* C27 witness: a remote connect without the password was answered "Server
\* is full" while the private slot was FREE
FullWithPrivateFree ==
    /\ ev.op = "connect" /\ ev.result = "full"
    /\ ev.peer.password = "" /\ cfg.sv_privatePassword = "pw"
    /\ cfg.sv_privateClients = 1
    /\ clients[0].state = CS_FREE
    /\ clients[MaxClients - 1].adr.type = NA_IP


\* C28: when the game module rejects a connect, the rejection text is
\* relayed to the sender and nothing else is sent out of band (no
\* connectResponse), userinfo_changed is not run, the only hook run for the
\* slot is client_connect, and the slot the connect targeted is FREE
\* afterwards.
RejectedConnectLeavesFree ==
    (ev.op = "connect" /\ ev.result = "denied") =>
        /\ ev.slot \in Slots
        /\ \E k \in 1..Len(ev.oob) :
              ev.oob[k] = [to |-> ev.peer.adr, text |-> "print denied"]
        /\ \A k \in 1..Len(ev.oob) : ev.oob[k].text # "connectResponse"
        /\ ev.infos = <<>>
        /\ \E k \in 1..Len(ev.hooks) :
              /\ ev.hooks[k].name = "client_connect"
              /\ ev.hooks[k].slot = ev.slot
        /\ clients[ev.slot].state = CS_FREE

\* C28 witness: the game module rejected the reconnect of a peer whose slot
\* was CONNECTED; the slot is FREE
RejectedReconnect ==
    /\ ev.op = "connect" /\ ev.result = "denied" /\ ev.reuse
    /\ \E k \in 1..Len(ev.trans) :
          ev.trans[k] = <<ev.slot, CS_CONNECTED, CS_FREE>>
    /\ clients[ev.slot].state = CS_FREE


(***************************************************************************)
(* SpecTwice: SV_DropClient applied again to the slot it has just dropped.  *)
(***************************************************************************)
\* the server drops once more the slot of the drop that came last
DropAgain ==
    \E i \in Slots :
        /\ ev.op \in {"drop", "dropagain"} /\ ev.slot = i
        /\ Becomes(SV_DropClient(Begin("dropagain", i), i, "was kicked"))

NextTwice ==
    \/ GetChallenge(Free)
    \/ DirectConnect(Free)
    \/ Drop
    \/ DropAgain
    \/ CheckTimeouts
    \/ Tick(Free)

SpecTwice == Init(Free) /\ [][NextTwice]_vars

\* C29 as stated: a drop applied to the slot that was dropped last, human or
\* bot, leaves every slot and every challenge record as the first drop left
\* them, runs no hook and sends no server command (no print, no disconnect)
DropIdempotent ==
    [][ev'.op = "dropagain" =>
          /\ clients' = clients
          /\ challenges' = challenges
          /\ ev'.hooks = <<>>
          /\ ev'.cmds = <<>>
          /\ ev'.drops = <<>>]_vars


\* C30 (SpecMove, sv_pure = 1 throughout): a message runs client_begin and
\* client_think only for a client whose pureAuthentic is 1; no CONNECTED,
\* PRIMED or ACTIVE slot has gotCP true and pureAuthentic 0 once a handler
\* has returned; and no client is dropped with "Cannot validate pure
\* client!", in the world or before it.
PureWorld ==
    /\ \A i \in Slots :
          clients[i].state \in {CS_CONNECTED, CS_PRIMED, CS_ACTIVE} =>
              ~(clients[i].gotCP /\ clients[i].pureAuthentic = 0)
    /\ ev.op = "message" =>
          \A k \in 1 .. Len(ev.hooks) :
              ev.hooks[k].name \in {"client_begin", "client_think"} =>
                  clients[ev.hooks[k].slot].pureAuthentic = 1
    /\ \A k \in 1 .. Len(ev.drops) :
          ev.drops[k].reason # "Cannot validate pure client!"

\* C30 witness: one message carried a good cp and the first move of a
\* PRIMED client, which entered the world and thought
PureClientEnteredWorld ==
    /\ ev.op = "message" /\ cfg.sv_pure # 0
    /\ \E k \in 1 .. Len(ev.cps) : ev.cps[k].how = "good"
    /\ \E k \in 1 .. Len(ev.hooks) : ev.hooks[k].name = "client_begin"
    /\ \E k \in 1 .. Len(ev.hooks) : ev.hooks[k].name = "client_think"
    /\ clients[ev.slot].state = CS_ACTIVE
    /\ clients[ev.slot].pureAuthentic = 1


LongInfo == Upd(ConnectInfo(1, 1), [len |-> 1010])

LongMsgs(n) ==
    {Msg(0, 0, 0, <<>>, "clc_EOF", NoMove),
     Msg(2, 0, 0, <<>>, "clc_move", Move(<<1>>))}
    \cup (IF n < MaxSeq
          THEN {Msg(2, 0, 0, <<[seq |-> n + 1, c |-> c]>>, "clc_EOF", NoMove) :
                    c \in {[name |-> "userinfo", info |-> ConnectInfo(1, 1)],
                           [name |-> "userinfo", info |-> LongInfo],
                           [name |-> "score"]}}
          ELSE {})

Long ==
    [cfgs |-> {Quick},
     adrs |-> {A1},
     nonces |-> {1},
     limited |-> {FALSE},
     infos |-> {ConnectInfo(1, 1)},
     msgs |-> [n \in 0 .. MaxSeq |-> LongMsgs(n)],
     tickMs |-> 1000,
     ticks |-> MaxTicks,
     bots |-> {{}}]

NextLong ==
    \/ GetChallenge(Long)
    \/ DirectConnect(Long)
    \/ PacketEvent(Long)
    \/ Tick(Long)

SpecLong == Init(Long) /\ [][NextLong]_vars

\* C32 as stated: client_userinfo_changed, client_command, client_begin and
\* client_think are called only for a slot that is CONNECTED, PRIMED or
\* ACTIVE at the moment of the call
HooksOnlyForLiveSlots ==
    \A k \in 1 .. Len(ev.hooks) :
        ev.hooks[k].name \in {"client_userinfo_changed", "client_command",
                              "client_begin", "client_think"} =>
            ev.hooks[k].state \in {CS_CONNECTED, CS_PRIMED, CS_ACTIVE}


(***************************************************************************)
(* SpecReject: the connects the server turns away before it initialises a  *)
(* slot.  A peer and a banned host ask for challenges and connect, with    *)
(* the right and a wrong nonce, another protocol and an overlong userinfo, *)
(* on a server that is empty or full of bots; one server has a reconnect   *)
(* cooldown and a highest ping, the other takes one client of an address.  *)
(***************************************************************************)
Reject ==
    [cfgs |-> {Upd(BaseCfg, [sv_zombietime |-> 0, sv_maxPing |-> 500,
                             serverBans |-> <<[host |-> "X", isexception |-> FALSE]>>]),
               Upd(Quick, [sv_clientsPerIp |-> 1])},
     adrs |-> {A1, Adr(NA_IP, "X", 1)},
     nonces |-> {1},
     limited |-> {FALSE},
     infos |-> {ConnectInfo(1, 1), ConnectInfo(2, 1),
                Upd(ConnectInfo(1, 1), [protocol |-> 67]),
                Upd(ConnectInfo(1, 1), [len |-> 1010])},
     msgs |-> NoMsgs,
     tickMs |-> 1000,
     ticks |-> MaxTicks,
     bots |-> {{}, Slots}]

NextReject ==
    \/ GetChallenge(Reject)
    \/ DirectConnect(Reject)
    \/ Drop
    \/ Tick(Reject)

SpecReject == Init(Reject) /\ [][NextReject]_vars

\* the results of a connect turned away before a slot is initialised
RejectedEarly ==
    {"banned", "protocol", "toosoon", "overflow", "badchallenge", "refused",
     "perip", "ping", "full"}

\* C33 as stated: a connect turned away before a slot is initialised leaves
\* every slot as it was and every challenge record as it was, but for the
\* refused flag a ping rejection sets; "Server is full" leaves the connected
\* flag of the challenge false
RejectionChangesNothing ==
    [][(ev'.op = "connect" /\ ev'.result \in RejectedEarly) =>
          /\ clients' = clients
          /\ \A k \in ChIdx :
                \/ challenges'[k] = challenges[k]
                \/ /\ ev'.result = "ping"
                   /\ challenges'[k] = [challenges[k] EXCEPT !.wasrefused = TRUE]
      ]_vars

\* C33 amended: such a connect leaves every slot as it was and every
\* challenge record as it was, but for the refused flag a ping rejection
\* sets and the connected flag "Server is full" sets, each on the first
\* record of the sender's address with the nonce presented.
RejectionFrame ==
    [][(ev'.op = "connect" /\ ev'.result \in RejectedEarly) =>
          /\ clients' = clients
          /\ \A k \in ChIdx :
                \/ challenges'[k] = challenges[k]
                \/ /\ ev'.result = "ping"
                   /\ k = Least(Presented(ev'.peer))
                   /\ challenges'[k] = [challenges[k] EXCEPT !.wasrefused = TRUE]
                \/ /\ ev'.result = "full"
                   /\ k = Least(Presented(ev'.peer))
                   /\ challenges'[k] = [challenges[k] EXCEPT !.connected = TRUE]
      ]_vars

\* C33 witness: a peer with a fresh challenge was told "Server is full";
\* no slot is its own and its challenge record is marked connected
FullConsumedChallenge ==
    /\ ev.op = "connect" /\ ev.result = "full"
    /\ \A i \in Slots : clients[i].adr.type = NA_BOT /\ clients[i].state # CS_FREE
    /\ \E k \in Presented(ev.peer) :
          challenges[k].connected /\ ~challenges[k].wasrefused


(***************************************************************************)
(* SpecStale: the challenge of a dropped client.  One peer asks for        *)
(* challenges, each with a nonce no record holds, connects with either of  *)
(* two nonces and is dropped, while svs.time advances by a second.         *)
(***************************************************************************)
Stale ==
    [cfgs |-> {Quick},
     adrs |-> {A1},
     nonces |-> {1, 2},
     limited |-> {FALSE},
     infos |-> {ConnectInfo(1, 1), ConnectInfo(2, 1)},
     msgs |-> NoMsgs,
     tickMs |-> 1000,
     ticks |-> MaxTicks,
     bots |-> {{}}]

\* a getchallenge whose nonce, a random number, is one no record holds
FreshChallenge(P) ==
    \E from \in P.adrs, nonce \in P.nonces :
        /\ \A k \in ChIdx : challenges[k].challenge # nonce
        /\ Becomes(SV_GetChallenge(Begin("getchallenge", NoSlot),
                                   from, 42, TRUE, FALSE, nonce))

NextStale ==
    \/ FreshChallenge(Stale)
    \/ DirectConnect(Stale)
    \/ Drop
    \/ Tick(Stale)

SpecStale == Init(Stale) /\ [][NextStale]_vars

\* C34 as stated: once a client that is no bot and is CONNECTED, PRIMED or
\* ACTIVE has been dropped, no challenge record of its address holds the
\* nonce it connected with
DropClearsNonce ==
    [][(/\ ev'.op = "drop"
        /\ clients[ev'.slot].state \in {CS_CONNECTED, CS_PRIMED, CS_ACTIVE}
        /\ clients[ev'.slot].adr.type # NA_BOT) =>
          \A k \in ChIdx :
              ~(/\ NET_CompareAdr(clients[ev'.slot].adr, challenges'[k].adr)
                /\ challenges'[k].challenge = clients[ev'.slot].challenge)
      ]_vars


(***************************************************************************)
(* SpecPace: a client that sends its reliable commands one to a message,   *)
(* at once or 600 ms or 1200 ms apart; sv_floodProtect is 2.               *)
(***************************************************************************)
PaceMsgs(n) ==
    {Msg(0, 0, 0, <<>>, "clc_EOF", NoMove),
     Msg(2, 0, 0, <<>>, "clc_move", Move(<<1>>))}
    \cup (IF n < MaxSeq
          THEN {Msg(2, 0, 0, <<Cmd(n + 1, "other")>>, "clc_EOF", NoMove)}
          ELSE {})

Pace ==
    [cfgs |-> {Quick},
     adrs |-> {A1},
     nonces |-> {1},
     limited |-> {FALSE},
     infos |-> {ConnectInfo(1, 1)},
     msgs |-> [n \in 0 .. MaxSeq |-> PaceMsgs(n)],
     tickMs |-> 600,
     ticks |-> 2,
     bots |-> {{}}]

NextPace ==
    \/ GetChallenge(Pace)
    \/ DirectConnect(Pace)
    \/ PacketEvent(Pace)
    \/ Tick(Pace)

SpecPace == Init(Pace) /\ [][NextPace]_vars

\* the commands of log up to the k-th that came less than a second before it
InLastSecond(log, k) == {q \in 1 .. k : log[k].t - log[q].t < 1000}

RECURSIVE RunCount(_, _)
\* how many commands up to the k-th of log were executed while ACTIVE since
\* the last one executed while ACTIVE that came a second or more after the
\* command before it
RunCount(log, k) ==
    IF k = 0 THEN 0
    ELSE IF ~log[k].active THEN RunCount(log, k - 1)
    ELSE IF k = 1 \/ log[k].t - log[k - 1].t >= 1000 THEN 1
    ELSE RunCount(log, k - 1) + 1

\* C35 as stated: a command is given clientOK = false only if more than
\* sv_floodProtect commands of the client, itself counted, were executed in
\* the 1000 ms up to it
FloodOnlyInBursts ==
    ev.op = "message" =>
        LET log == hist.cmdAt[ev.slot]
            m == Len(ev.exec)
        IN  \A j \in 1 .. m :
                ~ev.exec[j].ok =>
                    Cardinality(InLastSecond(log, (Len(log) - m) + j))
                        > cfg.sv_floodProtect

\* C35 amended: a command is given clientOK = false only if it came less
\* than 1000 ms after the command before it and is at least the
\* (sv_floodProtect + 1)-th executed while ACTIVE since the client connected
\* or since its last command executed while ACTIVE that came 1000 ms or more
\* after the command before it.
FloodOnlyInRuns ==
    ev.op = "message" =>
        LET log == hist.cmdAt[ev.slot]
            m == Len(ev.exec)
        IN  \A j \in 1 .. m :
                LET k == (Len(log) - m) + j
                IN  ~ev.exec[j].ok =>
                        /\ log[k].active
                        /\ k > 1 /\ log[k].t - log[k - 1].t < 1000
                        /\ RunCount(log, k) > cfg.sv_floodProtect

\* C35 witness: the third of three commands sent 600 ms apart by an ACTIVE
\* client is given clientOK = false
SteadySenderSuppressed ==
    /\ ev.op = "message" /\ Len(ev.exec) = 1 /\ ~ev.exec[1].ok
    /\ hist.cmdAt[ev.slot] = <<[t |-> 0, active |-> TRUE],
                               [t |-> 600, active |-> TRUE],
                               [t |-> 1200, active |-> TRUE]>>

====
